---------------------------- MODULE Spec2Model ----------------------------
(***************************************************************************)
(* Holdings Manager: the upload pipeline of App (owner extraction, format  *)
(* detection, row extraction, pivot fold) as a state machine.              *)
(*                                                                         *)
(* A JavaScript string is modelled as a sequence of one-character strings, *)
(* so that the regular expressions, trim, toLowerCase and includes of the  *)
(* source are computed character by character.                             *)
(***************************************************************************)
EXTENDS Integers, Sequences, FiniteSets, TLC

VARIABLES
    files,          \* useState<File[]>: the uploaded files (catalogue ids)
    allData,        \* useState<HoldingData[]>
    pivotData,      \* useState<PivotData | null>
    alerts,         \* useState<{type, message}[]>
    timers,         \* number of pending addAlert setTimeout callbacks
    debugPreview,   \* useState<{filename, rows} | null>
    calls,          \* the processFiles invocations, in the order started
    nameIn,         \* argument of extractOwnerFromFilename (SpecOwner)
    ownerOut,       \* its result (SpecOwner)
    sheetIn,        \* rawData handed to the format detection (SpecDetect)
    mappingOut,     \* the detected mapping (SpecDetect)
    newDataOut,     \* the records extracted from sheetIn (SpecExtract)
    sortColumn,     \* useState<string | null>
    sortDirection,  \* useState<'asc' | 'desc'>
    sortedOut,      \* getSortedEntries(pivotData) as last rendered
    ownersOut,      \* getOwners(pivotData) as last rendered
    exportOut,      \* headers and rows of the last export
    supabaseUrl,    \* import.meta.env.VITE_SUPABASE_URL is set
    supabaseAnonKey, \* import.meta.env.VITE_SUPABASE_ANON_KEY is set
    supabaseClient, \* the module variable of lib/supabase: "null" or "created"
    user,           \* AuthProvider: useState<User | null>
    session,        \* AuthProvider: useState<Session | null>
    loading,        \* AuthProvider: useState(true)
    isConfigured,   \* AuthProvider: useState(false)
    authPc,         \* where the effect of AuthProvider stands
    logoutPc,       \* where handleLogout stands
    savedPivots,    \* useState<SavedPivot[]>: the rows, by the user they belong to
    fetches,        \* the fetchSavedPivots calls awaiting the query, by user
    phase           \* "in" before, "out" after the pure function was applied

uploadVars == <<files, allData, pivotData, alerts, timers, debugPreview, calls>>
ownerVars == <<nameIn, ownerOut>>
detectVars == <<sheetIn, mappingOut>>
extractVars == <<newDataOut>>
\* what the handlers of App never touch
pureVars == <<nameIn, ownerOut, sheetIn, mappingOut, newDataOut, phase>>
sortVars == <<sortColumn, sortDirection, sortedOut, ownersOut, exportOut>>
savedVars == <<savedPivots, fetches>>
\* AuthProvider, handleLogout, and what App keeps for the signed-in user
authVars == <<supabaseUrl, supabaseAnonKey, supabaseClient, user, session,
              loading, isConfigured, authPc, logoutPc, savedPivots, fetches>>
vars == <<files, allData, pivotData, alerts, timers, debugPreview, calls,
          nameIn, ownerOut, sheetIn, mappingOut, newDataOut, phase,
          sortColumn, sortDirection, sortedOut, ownersOut, exportOut,
          supabaseUrl, supabaseAnonKey, supabaseClient, user, session, loading,
          isConfigured, authPc, logoutPc, savedPivots, fetches>>

(***************************************************************************)
(* Strings                                                                 *)
(***************************************************************************)
UpperLetters == <<"A","B","C","D","E","F","G","H","I","J","K","L","M",
                  "N","O","P","Q","R","S","T","U","V","W","X","Y","Z">>
LowerLetters == <<"a","b","c","d","e","f","g","h","i","j","k","l","m",
                  "n","o","p","q","r","s","t","u","v","w","x","y","z">>
Digits == <<"0","1","2","3","4","5","6","7","8","9">>

UpperSet == {UpperLetters[i] : i \in 1..26}
LowerSet == {LowerLetters[i] : i \in 1..26}
DigitSet == {Digits[i] : i \in 1..10}
LowerOf == [c \in UpperSet |-> LowerLetters[CHOOSE i \in 1..26 : UpperLetters[i] = c]]

IsUpper(c) == c \in UpperSet
IsLetter(c) == c \in UpperSet \/ c \in LowerSet
IsDigit(c) == c \in DigitSet

\* String.prototype.toLowerCase on one character
LowerChar(c) == IF c \in UpperSet THEN LowerOf[c] ELSE c

ToLowerCase(s) == [i \in 1..Len(s) |-> LowerChar(s[i])]

\* the regular expression class \s, and the characters trim() removes
IsWhitespace(c) == c \in {" ", "\t"}

\* String.prototype.trim
Trim(s) ==
    LET keep == {i \in 1..Len(s) : ~IsWhitespace(s[i])}
    IN  IF keep = {} THEN <<>>
        ELSE LET lo == CHOOSE i \in keep : \A k \in keep : i <= k
                 hi == CHOOSE i \in keep : \A k \in keep : i >= k
             IN  SubSeq(s, lo, hi)

\* s has the characters of lit at position p (1-based), compared exactly
StartsAt(s, p, lit) ==
    /\ p >= 1
    /\ p + Len(lit) - 1 <= Len(s)
    /\ \A k \in 1..Len(lit) : s[p + k - 1] = lit[k]

\* the same under the regular expression flag i
StartsAtIgnoreCase(s, p, lit) ==
    /\ p >= 1
    /\ p + Len(lit) - 1 <= Len(s)
    /\ \A k \in 1..Len(lit) : LowerChar(s[p + k - 1]) = LowerChar(lit[k])

\* String.prototype.includes
Includes(s, sub) == \E p \in 1..(Len(s) + 1) : StartsAt(s, p, sub)

\* String.prototype.endsWith
EndsWith(s, suffix) == StartsAt(s, Len(s) - Len(suffix) + 1, suffix)

\* String.prototype.replace(/x/g, y) for single characters x and y
ReplaceAll(s, x, y) == [i \in 1..Len(s) |-> IF s[i] = x THEN y ELSE s[i]]

(***************************************************************************)
(* extractOwnerFromFilename                                                *)
(***************************************************************************)
CLIENT == <<"C","L","I","E","N","T">>
CLIENT_ID == <<"C","L","I","E","N","T","-","I","D">>
DotXlsx == <<".","x","l","s","x">>
DotCsv == <<".","c","s","v">>

\* the class [^-|_] of the capture group
IsNameChar(c) == c \notin {"-", "|", "_"}

\* the positions at which CLIENT-ID occurs, compared under the flag i
ClientIdPositions(s) == {d \in 1..Len(s) : StartsAtIgnoreCase(s, d, CLIENT_ID)}

\* \s*CLIENT-ID matches at position e
TailMatchesAt(s, e) ==
    \E d \in ClientIdPositions(s) :
        /\ d >= e
        /\ \A k \in e..(d - 1) : IsWhitespace(s[k])

\* /CLIENT\s*([^-|_]+?)\s*CLIENT-ID/i matches from position p with \s* taking
\* w characters and the capture group taking g characters
GroupMatch(s, p, w, g) ==
    /\ StartsAtIgnoreCase(s, p, CLIENT)
    /\ g >= 1
    /\ p + 6 + w + g - 1 <= Len(s)
    /\ \A k \in (p + 6)..(p + 6 + w - 1) : IsWhitespace(s[k])
    /\ \A k \in (p + 6 + w)..(p + 6 + w + g - 1) : IsNameChar(s[k])
    /\ TailMatchesAt(s, p + 6 + w + g)

\* how many characters from position a on are whitespace
RECURSIVE WhitespaceRun(_, _)
WhitespaceRun(s, a) ==
    IF a <= Len(s) /\ IsWhitespace(s[a]) THEN 1 + WhitespaceRun(s, a + 1) ELSE 0

\* how many characters from position a on are in the class of the group
RECURSIVE NameRun(_, _)
NameRun(s, a) ==
    IF a <= Len(s) /\ IsNameChar(s[a]) THEN 1 + NameRun(s, a + 1) ELSE 0

\* the ways the pattern matches from position p: <<w, g>>, looked for among
\* the w and g that stay inside the runs \s* and [^-|_]+ can cover
MatchesFrom(s, p) ==
    IF ~StartsAtIgnoreCase(s, p, CLIENT) THEN {}
    ELSE UNION {{<<w, g>> : g \in {x \in 1..NameRun(s, p + 6 + w) :
                                      GroupMatch(s, p, w, x)}} :
                   w \in 0..WhitespaceRun(s, p + 6)}

\* filename.match(...): the leftmost match, \s* greedy, the group lazy
OwnerMatch(s) ==
    LET starts == {p \in 1..Len(s) : MatchesFrom(s, p) # {}}
    IN  IF starts = {} THEN [matched |-> FALSE, group |-> <<>>]
        ELSE LET p == CHOOSE x \in starts : \A y \in starts : x <= y
                 ms == MatchesFrom(s, p)
                 w == CHOOSE x \in {m[1] : m \in ms} : \A m \in ms : x >= m[1]
                 g == CHOOSE x \in {m[2] : m \in ms} :
                          /\ <<w, x>> \in ms
                          /\ \A m \in ms : m[1] = w => x <= m[2]
             IN  [matched |-> TRUE,
                  group |-> SubSeq(s, p + 6 + w, p + 6 + w + g - 1)]

\* the mutant of StripExtension: the flag i forgotten
StripExtensionCaseSensitive(filename) ==
    IF EndsWith(filename, DotXlsx)
    THEN SubSeq(filename, 1, Len(filename) - 5)
    ELSE IF EndsWith(filename, DotCsv)
         THEN SubSeq(filename, 1, Len(filename) - 4)
         ELSE filename

\* filename.replace(/\.(xlsx|csv)$/i, '')
StripExtension(filename) ==
    IF EndsWith(ToLowerCase(filename), DotXlsx)
    THEN SubSeq(filename, 1, Len(filename) - 5)
    ELSE IF EndsWith(ToLowerCase(filename), DotCsv)
         THEN SubSeq(filename, 1, Len(filename) - 4)
         ELSE filename

extractOwnerFromFilename(filename) ==
    LET match == OwnerMatch(filename)
    IN  IF match.matched
        THEN ReplaceAll(ReplaceAll(Trim(match.group), "_", " "), "-", " ")
        ELSE StripExtension(filename)

(***************************************************************************)
(* Cells and rows of rawData (XLSX.utils.sheet_to_json with header: 1)     *)
(*                                                                         *)
(* A cell is a number, a string or absent (undefined).  The three kinds    *)
(* share one record shape.  A row is an array of cells, or is itself       *)
(* absent (hole).  Numbers are integers: share quantities.                 *)
(***************************************************************************)
Num(n) == [t |-> "num", n |-> n, s |-> <<>>]
Str(s) == [t |-> "str", n |-> 0, s |-> s]
Empty == [t |-> "empty", n |-> 0, s |-> <<>>]
Row(cells) == [hole |-> FALSE, cells |-> cells]
Hole == [hole |-> TRUE, cells |-> <<>>]

\* row[j], j counted from 0; undefined beyond the row's length
CellAt(row, j) ==
    IF j >= 0 /\ j < Len(row.cells) THEN row.cells[j + 1] ELSE Empty

\* typeof cell === 'number'
IsNumber(cell) == cell.t = "num"

\* the truthiness that || tests: 0, '' and undefined are falsy
Truthy(cell) ==
    \/ cell.t = "num" /\ cell.n # 0
    \/ cell.t = "str" /\ cell.s # <<>>

RECURSIVE DigitsOf(_)
DigitsOf(n) ==
    IF n < 10 THEN <<Digits[n + 1]>>
    ELSE Append(DigitsOf(n \div 10), Digits[(n % 10) + 1])

\* String(n) for an integer n
NumberToString(n) == IF n < 0 THEN <<"-">> \o DigitsOf(0 - n) ELSE DigitsOf(n)

\* String(cell || '')
StringOrEmpty(cell) ==
    IF ~Truthy(cell) THEN <<>>
    ELSE IF cell.t = "num" THEN NumberToString(cell.n) ELSE cell.s

(***************************************************************************)
(* processFiles: format detection                                          *)
(***************************************************************************)
ScanWindow == 15
MinRowLength == 3
NumericRowLength == 10
DefaultCompanyColIndex == 1
DefaultTotalColIndex == 9
DefaultDataStartRow == 5

INE == <<"I","N","E">>
KwCompany == <<"c","o","m","p","a","n","y">>
KwScrip == <<"s","c","r","i","p">>
KwNameOfSecurity == <<"n","a","m","e"," ","o","f"," ","s","e","c","u","r","i","t","y">>
KwSecurityName == <<"s","e","c","u","r","i","t","y"," ","n","a","m","e">>
KwTotal == <<"t","o","t","a","l">>
KwFree == <<"f","r","e","e">>
KwTotalQty == <<"t","o","t","a","l"," ","q","t","y">>
KwQuantity == <<"q","u","a","n","t","i","t","y">>
KwHolding == <<"h","o","l","d","i","n","g">>
KwGrand == <<"g","r","a","n","d">>
KwSummary == <<"s","u","m","m","a","r","y">>

IsAlphaNum(c) == IsLetter(c) \/ IsDigit(c)

\* /^INE[A-Z0-9]+$/i.test(s)
MatchesINE(s) ==
    /\ Len(s) >= 4
    /\ StartsAtIgnoreCase(s, 1, INE)
    /\ \A k \in 4..Len(s) : IsAlphaNum(s[k])

\* /^[A-Z]{2}[A-Z0-9]+$/i.test(s)
MatchesTwoLetterCode(s) ==
    /\ Len(s) >= 3
    /\ IsLetter(s[1])
    /\ IsLetter(s[2])
    /\ \A k \in 3..Len(s) : IsAlphaNum(s[k])

\* const firstCell = String(row[0] || '').trim(); const hasISIN = ...
HasISIN(row) ==
    LET firstCell == Trim(StringOrEmpty(CellAt(row, 0)))
    IN  MatchesINE(firstCell) \/ MatchesTwoLetterCode(firstCell)

HasNumericData(row) ==
    /\ Len(row.cells) >= NumericRowLength
    /\ IsNumber(CellAt(row, 2))
    /\ IsNumber(CellAt(row, 9))

\* the mutant of SkipsRow: no minimum row length
SkipsRowAnyLength(row) == row.hole

\* if (!row || row.length < 3) continue
SkipsRow(row) == row.hole \/ Len(row.cells) < MinRowLength

\* if (hasISIN || hasNumericData)
IsDataRow(row) == HasISIN(row) \/ HasNumericData(row)

IsCompanyHeader(cellValue) ==
    \/ Includes(cellValue, KwCompany)
    \/ Includes(cellValue, KwScrip)
    \/ Includes(cellValue, KwNameOfSecurity)
    \/ Includes(cellValue, KwSecurityName)

IsTotalHeader(cellValue) ==
    \/ cellValue = KwTotal
    \/ cellValue = KwFree
    \/ Includes(cellValue, KwTotalQty)
    \/ Includes(cellValue, KwQuantity)
    \/ Includes(cellValue, KwHolding)

\* the mutant of ScanCells: a header cell counts only while none was found
RECURSIVE ScanCellsFirstMatch(_, _, _, _)
ScanCellsFirstMatch(row, i, j, m) ==
    IF j >= Len(row.cells) THEN m
    ELSE LET cellValue == Trim(ToLowerCase(StringOrEmpty(CellAt(row, j))))
             m1 == IF IsCompanyHeader(cellValue) /\ m.dataStartRow < 0
                   THEN [m EXCEPT !.companyColIndex = j, !.dataStartRow = i + 1]
                   ELSE m
             m2 == IF IsTotalHeader(cellValue)
                   THEN [m1 EXCEPT !.totalColIndex = j]
                   ELSE m1
         IN  ScanCellsFirstMatch(row, i, j + 1, m2)

\* the inner loop over the cells j.. of row i
RECURSIVE ScanCells(_, _, _, _)
ScanCells(row, i, j, m) ==
    IF j >= Len(row.cells) THEN m
    ELSE LET cellValue == Trim(ToLowerCase(StringOrEmpty(CellAt(row, j))))
             m1 == IF IsCompanyHeader(cellValue)
                   THEN [m EXCEPT !.companyColIndex = j, !.dataStartRow = i + 1]
                   ELSE m
             m2 == IF IsTotalHeader(cellValue)
                   THEN [m1 EXCEPT !.totalColIndex = j]
                   ELSE m1
         IN  ScanCells(row, i, j + 1, m2)

\* the mutant of ScanLimit: one row more than the window scanned
ScanLimitOneMore(rawData) ==
    IF Len(rawData) < ScanWindow + 1 THEN Len(rawData) ELSE ScanWindow + 1

\* the mutant of ScanLimit: the scan not cut at 15 rows
ScanLimitWholeSheet(rawData) == Len(rawData)

\* Math.min(15, rawData.length)
ScanLimit(rawData) == IF Len(rawData) < ScanWindow THEN Len(rawData) ELSE ScanWindow

\* the outer loop from row i on; break on the first data row
RECURSIVE ScanRows(_, _, _)
ScanRows(rawData, i, m) ==
    IF i >= ScanLimit(rawData) THEN m
    ELSE LET row == rawData[i + 1]
         IN  IF SkipsRow(row) THEN ScanRows(rawData, i + 1, m)
             ELSE IF IsDataRow(row) THEN [m EXCEPT !.dataStartRow = i]
             ELSE ScanRows(rawData, i + 1, ScanCells(row, i, 0, m))

\* the mutant of DetectFormat: the default row 5 forgotten
DetectFormatNoDefault(rawData) ==
    ScanRows(rawData, 0, [dataStartRow |-> -1,
                          companyColIndex |-> DefaultCompanyColIndex,
                          totalColIndex |-> DefaultTotalColIndex])

\* dataStartRow, companyColIndex and totalColIndex as processFiles detects them
DetectFormat(rawData) ==
    LET m == ScanRows(rawData, 0, [dataStartRow |-> -1,
                                   companyColIndex |-> DefaultCompanyColIndex,
                                   totalColIndex |-> DefaultTotalColIndex])
    IN  IF m.dataStartRow < 0
        THEN [m EXCEPT !.dataStartRow = DefaultDataStartRow]
        ELSE m

(***************************************************************************)
(* processFiles: row extraction                                            *)
(***************************************************************************)
RECURSIVE DigitsValue(_)
DigitsValue(ds) ==
    IF ds = <<>> THEN 0
    ELSE 10 * DigitsValue(SubSeq(ds, 1, Len(ds) - 1))
         + ((CHOOSE i \in 1..10 : Digits[i] = ds[Len(ds)]) - 1)

\* the leading run of digits of s from position p
RECURSIVE DigitRun(_, _)
DigitRun(s, p) ==
    IF p <= Len(s) /\ IsDigit(s[p]) THEN <<s[p]>> \o DigitRun(s, p + 1) ELSE <<>>

\* String.prototype.trimStart, which parseFloat applies first
RECURSIVE TrimStart(_)
TrimStart(s) ==
    IF s # <<>> /\ IsWhitespace(s[1]) THEN TrimStart(Tail(s)) ELSE s

\* parseFloat(s) for integer literals: an optional sign and a run of digits;
\* anything after the run is ignored, no digit at all gives NaN.  (The cell
\* texts of this model hold no fraction, exponent or "Infinity".)
ParseFloat(s) ==
    LET t == TrimStart(s)
        signed == t # <<>> /\ t[1] \in {"-", "+"}
        run == DigitRun(t, IF signed THEN 2 ELSE 1)
    IN  IF run = <<>> THEN [isNaN |-> TRUE, value |-> 0]
        ELSE [isNaN |-> FALSE,
              value |-> IF signed /\ t[1] = "-" THEN 0 - DigitsValue(run)
                        ELSE DigitsValue(run)]

\* String.prototype.replace(/,/g, '')
RemoveCommas(s) == SelectSeq(s, LAMBDA c : c # ",")

\* typeof totalValue === 'number' ? totalValue
\*   : parseFloat(String(totalValue || '0').replace(/,/g, '')) || 0
TotalOf(totalValue) ==
    IF IsNumber(totalValue) THEN totalValue.n
    ELSE LET text == IF Truthy(totalValue) THEN totalValue.s ELSE <<"0">>
             parsed == ParseFloat(RemoveCommas(text))
         IN  IF parsed.isNaN THEN 0 ELSE parsed.value

MaxOf(a, b) == IF a >= b THEN a ELSE b

\* the noise filter on the lower-cased company name
IsSummaryName(lowerName) ==
    \/ Includes(lowerName, KwTotal)
    \/ Includes(lowerName, KwGrand)
    \/ Includes(lowerName, KwSummary)

\* the mutant of RowRecords: the noise filter left out
RowRecordsKeepsSummaryRows(row, m, ownerName) ==
    IF row.hole \/ Len(row.cells) <= MaxOf(m.companyColIndex, m.totalColIndex)
    THEN <<>>
    ELSE LET companyName == Trim(StringOrEmpty(CellAt(row, m.companyColIndex)))
             total == TotalOf(CellAt(row, m.totalColIndex))
         IN  IF companyName # <<>> /\ Len(companyName) > 1 /\ total # 0
             THEN <<[companyName |-> companyName, total |-> total,
                     ownerName |-> ownerName]>>
             ELSE <<>>

\* the mutant of RowRecords: a company name of one character accepted
RowRecordsKeepsShortNames(row, m, ownerName) ==
    IF row.hole \/ Len(row.cells) <= MaxOf(m.companyColIndex, m.totalColIndex)
    THEN <<>>
    ELSE LET companyName == Trim(StringOrEmpty(CellAt(row, m.companyColIndex)))
             total == TotalOf(CellAt(row, m.totalColIndex))
         IN  IF IsSummaryName(ToLowerCase(companyName)) THEN <<>>
             ELSE IF companyName # <<>> /\ total # 0
             THEN <<[companyName |-> companyName, total |-> total,
                     ownerName |-> ownerName]>>
             ELSE <<>>

\* one iteration of the loop over dataRows: the records the row adds to newData
RowRecords(row, m, ownerName) ==
    IF row.hole \/ Len(row.cells) <= MaxOf(m.companyColIndex, m.totalColIndex)
    THEN <<>>
    ELSE LET companyName == Trim(StringOrEmpty(CellAt(row, m.companyColIndex)))
             total == TotalOf(CellAt(row, m.totalColIndex))
         IN  IF IsSummaryName(ToLowerCase(companyName)) THEN <<>>
             ELSE IF companyName # <<>> /\ Len(companyName) > 1 /\ total # 0
             THEN <<[companyName |-> companyName, total |-> total,
                     ownerName |-> ownerName]>>
             ELSE <<>>

\* the loop over rawData.slice(dataStartRow), from row index i on
RECURSIVE ExtractFrom(_, _, _, _)
ExtractFrom(rawData, i, m, ownerName) ==
    IF i >= Len(rawData) THEN <<>>
    ELSE RowRecords(rawData[i + 1], m, ownerName)
         \o ExtractFrom(rawData, i + 1, m, ownerName)

ExtractRows(rawData, m, ownerName) ==
    ExtractFrom(rawData, m.dataStartRow, m, ownerName)

(***************************************************************************)
(* processFiles: the pivot fold                                            *)
(*                                                                         *)
(* A JavaScript object is a sequence of [key, value] in property order:    *)
(* array-index keys first in ascending numeric order, then the other keys  *)
(* in insertion order.                                                     *)
(***************************************************************************)
TotalHoldings == <<"T","o","t","a","l"," ","H","o","l","d","i","n","g","s">>

HasKey(obj, key) == \E i \in 1..Len(obj) : obj[i].key = key

\* obj[key] for a key that is present
Get(obj, key) == obj[CHOOSE i \in 1..Len(obj) : obj[i].key = key].value

\* obj[key] || 0 for a numeric property
GetOrZero(obj, key) == IF HasKey(obj, key) THEN Get(obj, key) ELSE 0

\* a canonical array index: "0", or digits without a leading zero (keys of
\* ten digits or more are beyond the names of this model)
IsArrayIndex(key) ==
    /\ Len(key) >= 1
    /\ Len(key) <= 9
    /\ \A i \in 1..Len(key) : IsDigit(key[i])
    /\ (Len(key) = 1 \/ key[1] # "0")

\* where a new key goes in property order (1-based position)
InsertPosition(obj, key) ==
    IF ~IsArrayIndex(key) THEN Len(obj) + 1
    ELSE LET later == {i \in 1..Len(obj) :
                          \/ ~IsArrayIndex(obj[i].key)
                          \/ DigitsValue(obj[i].key) > DigitsValue(key)}
         IN  IF later = {} THEN Len(obj) + 1
             ELSE CHOOSE i \in later : \A k \in later : i <= k

\* obj[key] = value
SetProperty(obj, key, value) ==
    IF HasKey(obj, key)
    THEN [i \in 1..Len(obj) |->
             IF obj[i].key = key THEN [key |-> key, value |-> value] ELSE obj[i]]
    ELSE LET p == InsertPosition(obj, key)
         IN  SubSeq(obj, 1, p - 1) \o <<[key |-> key, value |-> value]>>
             \o SubSeq(obj, p, Len(obj))

\* the mutant of FoldItem: 'Total Holdings' assigned (=) instead of added to (+=)
FoldItemAssignsTotal(pivot, item) ==
    LET p1 == IF ~HasKey(pivot, item.companyName)
              THEN SetProperty(pivot, item.companyName,
                               <<[key |-> TotalHoldings, value |-> 0]>>)
              ELSE pivot
        r1 == Get(p1, item.companyName)
        r2 == SetProperty(r1, item.ownerName,
                          GetOrZero(r1, item.ownerName) + item.total)
        r3 == SetProperty(r2, TotalHoldings, item.total)
    IN  SetProperty(p1, item.companyName, r3)

\* the body of combinedData.forEach
FoldItem(pivot, item) ==
    LET p1 == IF ~HasKey(pivot, item.companyName)
              THEN SetProperty(pivot, item.companyName,
                               <<[key |-> TotalHoldings, value |-> 0]>>)
              ELSE pivot
        r1 == Get(p1, item.companyName)
        r2 == SetProperty(r1, item.ownerName,
                          GetOrZero(r1, item.ownerName) + item.total)
        r3 == SetProperty(r2, TotalHoldings, Get(r2, TotalHoldings) + item.total)
    IN  SetProperty(p1, item.companyName, r3)

\* const pivot = {}; combinedData.forEach(...)
RECURSIVE BuildPivot(_)
BuildPivot(combinedData) ==
    IF combinedData = <<>> THEN <<>>
    ELSE FoldItem(BuildPivot(SubSeq(combinedData, 1, Len(combinedData) - 1)),
                  combinedData[Len(combinedData)])

(***************************************************************************)
(* The files a user can upload (the File objects handed to processFiles)   *)
(***************************************************************************)
Infosys == <<"I","n","f","o","s","y","s">>
TCS == <<"T","C","S">>
GrandTotal == <<"G","r","a","n","d"," ","T","o","t","a","l">>
AliceFileName == <<"C","L","I","E","N","T"," ","A","l","i","c","e"," ","C","L","I","E","N","T","-","I","D",".","x","l","s","x">>
BobFileName == <<"C","L","I","E","N","T"," ","B","o","b"," ","C","L","I","E","N","T","-","I","D",".","x","l","s","x">>
TotalHoldingsFileName == <<"T","o","t","a","l"," ","H","o","l","d","i","n","g","s",".","x","l","s","x">>
BrokenFileName == <<"b","r","o","k","e","n",".","c","s","v">>
LongSummaryFileName == <<"t","o","t","a","l","s",".","x","l","s","x">>
SummaryFileName == <<"S","U","M","M","A","R","Y",".","C","S","V">>

\* a sheet with a header row: company in column 1, quantity in column 2
HeaderRow == Row(<<Str(<<"S","r">>), Str(<<"C","o","m","p","a","n","y"," ","N","a","m","e">>), Str(<<"Q","u","a","n","t","i","t","y">>)>>)
HeaderSheet(company, quantity) ==
    <<HeaderRow, Row(<<Num(1), Str(company), Num(quantity)>>)>>

\* a row of the default layout: ISIN, company, seven blanks, quantity
IsinRow(isin, company, quantity) ==
    Row(<<Str(isin), Str(company), Empty, Empty, Empty, Empty, Empty, Empty,
          Empty, quantity>>)
InfosysRow == IsinRow(<<"I","N","E","0","0","9","A","0","1","0","2","1">>, Infosys, Num(50))
TcsRow == IsinRow(<<"I","N","E","4","6","7","B","0","1","0","2","9">>, TCS, Str(<<"2","0">>))
GrandTotalRow ==
    Row(<<Empty, Str(GrandTotal), Empty, Empty, Empty, Empty, Empty, Empty,
          Empty, Num(70)>>)

\* name, whether XLSX.read succeeds on the bytes, and the rawData it gives
Catalogue ==
    <<[name |-> AliceFileName, decodes |-> TRUE,
       rawData |-> HeaderSheet(Infosys, 100)],
      [name |-> BobFileName, decodes |-> TRUE,
       rawData |-> <<InfosysRow, TcsRow, GrandTotalRow>>],
      [name |-> BobFileName, decodes |-> TRUE,
       rawData |-> <<TcsRow, InfosysRow>>],
      [name |-> TotalHoldingsFileName, decodes |-> TRUE,
       rawData |-> HeaderSheet(Infosys, 7)],
      [name |-> BrokenFileName, decodes |-> FALSE, rawData |-> <<>>],
      [name |-> SummaryFileName, decodes |-> TRUE,
       rawData |-> <<HeaderRow, Row(<<Empty, Str(GrandTotal), Num(100)>>)>>],
      [name |-> BobFileName, decodes |-> TRUE,
       rawData |-> HeaderSheet(Infosys, -150)],
      [name |-> LongSummaryFileName, decodes |-> TRUE,
       rawData |-> [i \in 1..16 |-> Row(<<Num(i)>>)]]>>

AliceFile == 1
BobFile == 2
BobFileSwapped == 3
TotalHoldingsFile == 4
BrokenFile == 5
SummaryFile == 6
NegativeFile == 7
LongSummaryFile == 8

\* the selections a user makes in one drop or one file dialog
Batches ==
    {<<AliceFile>>, <<BobFile>>, <<BobFileSwapped>>, <<AliceFile, BobFile>>,
     <<BobFile, AliceFile>>, <<TotalHoldingsFile>>, <<BrokenFile, AliceFile>>,
     <<SummaryFile>>, <<AliceFile, SummaryFile>>}

\* how many uploads a behaviour starts
MaxUploads == 2

(***************************************************************************)
(* State of App                                                            *)
(***************************************************************************)
PivotNull == [null |-> TRUE, table |-> <<>>]
PivotOf(table) == [null |-> FALSE, table |-> table]
NoPreview == [null |-> TRUE, filename |-> <<>>, rows |-> <<>>]

\* an alert: its type and its message (the text, and what the text embeds)
Alert(type, text, file, n, found) ==
    [type |-> type, text |-> text, file |-> file, n |-> n, found |-> found]
ErrorAlert(file) == Alert("error", "Error processing", file, 0, 0)
NoDataAlert(file) == Alert("warning", "No holding data found in", file, 0, 0)
SuccessAlert(n, found) == Alert("success", "file(s) processed - found", <<>>, n, found)
NothingAlert ==
    Alert("warning", "No holding data could be extracted", <<>>, 0, 0)

InitUpload ==
    /\ files = <<>>
    /\ allData = <<>>
    /\ pivotData = PivotNull
    /\ alerts = <<>>
    /\ timers = 0
    /\ debugPreview = NoPreview
    /\ calls = <<>>

IdleOwner == nameIn = <<>> /\ ownerOut = <<>>
IdleDetect ==
    /\ sheetIn = <<>>
    /\ mappingOut = [dataStartRow |-> -1, companyColIndex |-> DefaultCompanyColIndex,
                     totalColIndex |-> DefaultTotalColIndex]

IdleExtract == newDataOut = <<>>

\* user and session of AuthProvider
NoUser == "null"
UserId == "u1"
NoSession == [null |-> TRUE, user |-> NoUser]
SessionOf(u) == [null |-> FALSE, user |-> u]

\* session?.user ?? null
UserOf(s) == IF s.null THEN NoUser ELSE s.user

\* the rows of saved_pivots the query returns to user u
SavedRows(u) == <<[user_id |-> u]>>

\* a configured app with a user signed in, their saved pivots fetched, and
\* no logout under way
AuthReady ==
    /\ supabaseUrl = TRUE
    /\ supabaseAnonKey = TRUE
    /\ supabaseClient = "created"
    /\ user = UserId
    /\ session = SessionOf(UserId)
    /\ loading = FALSE
    /\ isConfigured = TRUE
    /\ authPc = "settled"
    /\ logoutPc = "idle"
    /\ savedPivots = SavedRows(UserId)
    /\ fetches = <<>>

\* App renders the upload section, the table and its buttons: not the
\* loading screen, not the configuration screen, and user && (...)
MainScreen == ~loading /\ isConfigured /\ user # NoUser

\* no sort column, ascending; nothing rendered or exported yet
NoColumn == [null |-> TRUE, name |-> <<>>]
Column(name) == [null |-> FALSE, name |-> name]
NoExport == [kind |-> "none", headers |-> <<>>, rows |-> <<>>]

IdleSort ==
    /\ sortColumn = NoColumn
    /\ sortDirection = "asc"
    /\ sortedOut = <<>>
    /\ ownersOut = <<>>
    /\ exportOut = NoExport

Init ==
    /\ InitUpload
    /\ IdleOwner
    /\ IdleDetect
    /\ IdleExtract
    /\ IdleSort
    /\ AuthReady
    /\ phase = "app"

(***************************************************************************)
(* processFiles                                                            *)
(***************************************************************************)
\* the body of the try block for one file, after await file.arrayBuffer():
\* ok is FALSE when XLSX.read throws
FileOutcome(f) ==
    LET file == Catalogue[f]
        ownerName == extractOwnerFromFilename(file.name)
    IN  IF ~file.decodes THEN [ok |-> FALSE, records |-> <<>>]
        ELSE [ok |-> TRUE,
              records |-> ExtractRows(file.rawData, DetectFormat(file.rawData),
                                      ownerName)]

Outcomes == [f \in 1..Len(Catalogue) |-> FileOutcome(f)]

\* the mutant of PreviewRows: the whole sheet kept
PreviewRowsWholeSheet(rawData) == rawData

\* rawData.slice(0, 15)
PreviewRows(rawData) == SubSeq(rawData, 1, ScanLimit(rawData))

\* processFiles(uploadedFiles) runs up to its first await; allData is the
\* value the useCallback closure captured at the last render
StartCall(uploadedFiles) ==
    calls' = Append(calls, [batch |-> uploadedFiles, idx |-> 1, newData |-> <<>>,
                            allData |-> allData, pc |-> "await"])

\* the mutant of CombinedData: the earlier uploads forgotten
CombinedDataNewOnly(call, newData) == newData

\* const combinedData = [...allData, ...newData]
CombinedData(call, newData) == call.allData \o newData

\* the alerts after the try block (or the catch) of one file
AlertsAfterFile(shown, file, out) ==
    IF ~out.ok THEN Append(shown, ErrorAlert(file.name))
    ELSE IF out.records = <<>> THEN Append(shown, NoDataAlert(file.name))
    ELSE shown

\* if (rowsWithData === 0) setDebugPreview(...)
PreviewAfterFile(preview, file, out) ==
    IF out.ok /\ out.records = <<>>
    THEN [null |-> FALSE, filename |-> file.name, rows |-> PreviewRows(file.rawData)]
    ELSE preview

\* after the loop: setAllData, the pivot of combinedData, the closing alert
FinishCall(k, call, newData, alerts1) ==
    /\ calls' = [calls EXCEPT ![k].pc = "done", ![k].newData = newData]
    /\ allData' = allData \o newData
    /\ IF Len(newData) > 0 \/ Len(call.allData) > 0
       THEN /\ pivotData' = PivotOf(BuildPivot(CombinedData(call, newData)))
            /\ alerts' = IF Len(newData) > 0
                         THEN Append(alerts1, SuccessAlert(Len(call.batch), Len(newData)))
                         ELSE alerts1
       ELSE /\ pivotData' = pivotData
            /\ alerts' = Append(alerts1, NothingAlert)
    /\ timers' = timers + (Len(alerts') - Len(alerts))

\* the loop goes on: the next file's await
NextFile(k, newData, alerts1) ==
    /\ calls' = [calls EXCEPT ![k].idx = @ + 1, ![k].newData = newData]
    /\ alerts' = alerts1
    /\ timers' = timers + (Len(alerts1) - Len(alerts))
    /\ UNCHANGED <<allData, pivotData>>

\* the mutant of AfterFile: one try/catch around the whole loop, so that a
\* file that fails ends the batch
AfterFileAbortsBatch(k, call, file, out) ==
    /\ debugPreview' = PreviewAfterFile(debugPreview, file, out)
    /\ IF call.idx < Len(call.batch) /\ out.ok
       THEN NextFile(k, call.newData \o out.records, AlertsAfterFile(alerts, file, out))
       ELSE FinishCall(k, call, call.newData \o out.records,
                       AlertsAfterFile(alerts, file, out))

\* one file of call k is done with outcome out
AfterFile(k, call, file, out) ==
    /\ debugPreview' = PreviewAfterFile(debugPreview, file, out)
    /\ IF call.idx < Len(call.batch)
       THEN NextFile(k, call.newData \o out.records, AlertsAfterFile(alerts, file, out))
       ELSE FinishCall(k, call, call.newData \o out.records,
                       AlertsAfterFile(alerts, file, out))

\* call k resumes after its await: the rest of the try block (or the catch)
\* for the current file, then either the next file's await or the end of
\* processFiles
ResumeFile(k) ==
    /\ k \in 1..Len(calls)
    /\ calls[k].pc = "await"
    /\ AfterFile(k, calls[k], Catalogue[calls[k].batch[calls[k].idx]],
                 Outcomes[calls[k].batch[calls[k].idx]])
    /\ UNCHANGED files
    /\ UNCHANGED pureVars
    /\ UNCHANGED sortVars
    /\ UNCHANGED authVars

\* handleFileInput: the files picked in the file dialog
HandleFileInput(selectedFiles) ==
    /\ MainScreen
    /\ Len(calls) < MaxUploads
    /\ Len(selectedFiles) > 0
    /\ files' = files \o selectedFiles
    /\ StartCall(selectedFiles)
    /\ UNCHANGED <<allData, pivotData, alerts, timers, debugPreview>>
    /\ UNCHANGED pureVars
    /\ UNCHANGED sortVars
    /\ UNCHANGED authVars

\* file.name.endsWith('.xlsx') || file.name.endsWith('.csv')
DropAccepts(f) ==
    EndsWith(Catalogue[f].name, DotXlsx) \/ EndsWith(Catalogue[f].name, DotCsv)

\* handleDrop: the dropped files, filtered by extension
HandleDrop(dropped) ==
    /\ MainScreen
    /\ Len(calls) < MaxUploads
    /\ LET droppedFiles == SelectSeq(dropped, DropAccepts)
       IN  IF Len(droppedFiles) > 0
           THEN /\ files' = files \o droppedFiles
                /\ StartCall(droppedFiles)
           ELSE UNCHANGED <<files, calls>>
    /\ UNCHANGED <<allData, pivotData, alerts, timers, debugPreview>>
    /\ UNCHANGED pureVars
    /\ UNCHANGED sortVars
    /\ UNCHANGED authVars

\* clearAll (loadedPivot, viewedPivot and viewFile are not part of this model)
ClearAll ==
    /\ MainScreen
    /\ files' = <<>>
    /\ allData' = <<>>
    /\ pivotData' = PivotNull
    /\ UNCHANGED <<alerts, timers, debugPreview, calls>>
    /\ UNCHANGED pureVars
    /\ UNCHANGED sortVars
    /\ UNCHANGED authVars

\* the mutant of AlertTimeout: the newest alert removed
AlertTimeoutRemovesNewest ==
    /\ timers > 0
    /\ timers' = timers - 1
    /\ alerts' = IF alerts = <<>> THEN <<>> ELSE SubSeq(alerts, 1, Len(alerts) - 1)
    /\ UNCHANGED <<files, allData, pivotData, debugPreview, calls>>
    /\ UNCHANGED pureVars
    /\ UNCHANGED sortVars
    /\ UNCHANGED authVars

\* the setTimeout callback of addAlert: prev.filter((_, i) => i !== 0)
AlertTimeout ==
    /\ timers > 0
    /\ timers' = timers - 1
    /\ alerts' = IF alerts = <<>> THEN <<>> ELSE Tail(alerts)
    /\ UNCHANGED <<files, allData, pivotData, debugPreview, calls>>
    /\ UNCHANGED pureVars
    /\ UNCHANGED sortVars
    /\ UNCHANGED authVars

AllDone == \A k \in 1..Len(calls) : calls[k].pc = "done"

Next ==
    \/ \E b \in Batches : HandleFileInput(b)
    \/ \E b \in Batches : HandleDrop(b)
    \/ \E k \in 1..MaxUploads : ResumeFile(k)
    \/ ClearAll
    \/ AlertTimeout

Spec == Init /\ [][Next]_vars

\* the same without a reset
NextNoReset ==
    \/ \E b \in Batches : HandleFileInput(b)
    \/ \E b \in Batches : HandleDrop(b)
    \/ \E k \in 1..MaxUploads : ResumeFile(k)
    \/ AlertTimeout

SpecNoReset == Init /\ [][NextNoReset]_vars

\* uploads that raise alerts of different kinds; every timer set by addAlert
\* fires
AlertBatches == {<<AliceFile>>, <<BrokenFile>>, <<SummaryFile, BrokenFile>>}

NextAlerts ==
    \/ \E b \in AlertBatches : HandleFileInput(b)
    \/ \E k \in 1..MaxUploads : ResumeFile(k)
    \/ AlertTimeout

SpecAlerts == Init /\ [][NextAlerts]_vars /\ WF_vars(AlertTimeout)

\* uploads among which sheets yield no record
NoDataBatches ==
    {<<SummaryFile>>, <<LongSummaryFile>>, <<AliceFile, LongSummaryFile>>,
     <<LongSummaryFile, AliceFile>>}

NextNoData ==
    \/ \E b \in NoDataBatches : HandleFileInput(b)
    \/ \E b \in NoDataBatches : HandleDrop(b)
    \/ \E k \in 1..MaxUploads : ResumeFile(k)
    \/ ClearAll
    \/ AlertTimeout

SpecNoData == Init /\ [][NextNoData]_vars

\* uploads among which a sheet holds a negative quantity
QuantityBatches == {<<AliceFile>>, <<NegativeFile>>, <<AliceFile, NegativeFile>>}

NextQuantities ==
    \/ \E b \in QuantityBatches : HandleFileInput(b)
    \/ \E b \in QuantityBatches : HandleDrop(b)
    \/ \E k \in 1..MaxUploads : ResumeFile(k)
    \/ ClearAll
    \/ AlertTimeout

SpecQuantities == Init /\ [][NextQuantities]_vars

\* uploads one after the other: each processFiles call completes before the
\* next one starts
NextSeq ==
    \/ AllDone /\ \E b \in Batches : HandleFileInput(b)
    \/ AllDone /\ \E b \in Batches : HandleDrop(b)
    \/ \E k \in 1..MaxUploads : ResumeFile(k)
    \/ AlertTimeout

SpecSeq == Init /\ [][NextSeq]_vars

(***************************************************************************)
(* extractOwnerFromFilename on its own: the file names are put together    *)
(* from parts, so that the pattern is present, absent or nearly present    *)
(***************************************************************************)
NamePrefixes == {<<>>, <<"m","y"," ">>}
NameKeywords == {CLIENT, <<"c","l","i","e","n","t">>, <<>>}
NameGaps == {<<>>, <<" ">>}
OwnerNames == {<<"A","l","i","c","e">>, <<"J","o","h","n","_","D","o","e">>, <<"A","-","B">>, <<"A","l","|","c","e">>, <<"r","e","p","o","r","t">>, <<" ">>, <<>>}
NameIdKeywords == {CLIENT_ID, <<"C","l","i","e","n","t","-","I","d">>, <<>>}
NameSuffixes == {<<>>, <<" ","1","2","3">>}
NameExtensions == {DotXlsx, DotCsv, <<".","X","L","S","X">>, <<".","t","x","t">>, <<".","c","s","v",".","x","l","s","x">>, <<>>}

FileNames ==
    {a \o b \o c \o d \o e \o f \o g \o h :
        a \in NamePrefixes, b \in NameKeywords, c \in NameGaps, d \in OwnerNames,
        e \in NameGaps, f \in NameIdKeywords, g \in NameSuffixes,
        h \in NameExtensions}

InitOwner ==
    /\ InitUpload
    /\ IdleSort
    /\ AuthReady
    /\ IdleExtract
    /\ IdleDetect
    /\ nameIn \in FileNames
    /\ ownerOut = <<>>
    /\ phase = "in"

ExtractOwner ==
    /\ phase = "in"
    /\ ownerOut' = extractOwnerFromFilename(nameIn)
    /\ phase' = "out"
    /\ UNCHANGED <<nameIn, sheetIn, mappingOut, newDataOut>>
    /\ UNCHANGED uploadVars
    /\ UNCHANGED sortVars
    /\ UNCHANGED authVars

NextOwner == ExtractOwner

SpecOwner == InitOwner /\ [][NextOwner]_vars

(***************************************************************************)
(* The format detection on its own: sheets of up to MaxSheetRows rows      *)
(* taken from DetectRows, below none or some blank rows, so that the rows  *)
(* fall on either side of the scan window                                  *)
(***************************************************************************)
ShortIsinRow == Row(<<Str(<<"I","N","E","0","0","9","A","0","1","0","2","1">>), Str(Infosys)>>)
NumericRow ==
    Row(<<Num(1), Str(Infosys), Num(10), Empty, Empty, Empty, Empty, Empty,
          Empty, Num(100)>>)
PlainRow == Row(<<Num(1), Str(Infosys), Num(100)>>)
OtherHeaderRow == Row(<<Empty, Str(<<"F","r","e","e">>), Str(<<"S","c","r","i","p"," ","N","a","m","e">>)>>)
ShortHeaderRow == Row(<<Str(<<"S","r">>), Str(<<"C","o","m","p","a","n","y"," ","N","a","m","e">>)>>)
BlankRow == Row(<<>>)

DetectRows ==
    {HeaderRow, InfosysRow, ShortIsinRow, NumericRow, PlainRow, OtherHeaderRow,
     ShortHeaderRow, Hole}

MaxSheetRows == 3

BlankRowsAbove == {<<>>, [i \in 1..13 |-> BlankRow], [i \in 1..14 |-> BlankRow]}

Sheets ==
    {above \o rows :
        above \in BlankRowsAbove,
        rows \in UNION {[1..n -> DetectRows] : n \in 0..MaxSheetRows}}

InitDetect ==
    /\ InitUpload
    /\ IdleSort
    /\ AuthReady
    /\ IdleExtract
    /\ IdleOwner
    /\ sheetIn \in Sheets
    /\ mappingOut = [dataStartRow |-> -1, companyColIndex |-> DefaultCompanyColIndex,
                     totalColIndex |-> DefaultTotalColIndex]
    /\ phase = "in"

Detect ==
    /\ phase = "in"
    /\ mappingOut' = DetectFormat(sheetIn)
    /\ phase' = "out"
    /\ UNCHANGED <<sheetIn, nameIn, ownerOut, newDataOut>>
    /\ UNCHANGED uploadVars
    /\ UNCHANGED sortVars
    /\ UNCHANGED authVars

NextDetect == Detect

SpecDetect == InitDetect /\ [][NextDetect]_vars

(***************************************************************************)
(* One file through the body of the try block: owner, detection and        *)
(* extraction, on sheets of an optional header row and up to MaxSheetRows  *)
(* rows taken from DataRows                                                *)
(***************************************************************************)
GrandTotalPlainRow == Row(<<Num(1), Str(GrandTotal), Num(100)>>)
TcsCommaRow == Row(<<Num(1), Str(<<" ","T","C","S"," ">>), Str(<<"1",",","2","0","0">>)>>)
OneLetterRow == Row(<<Num(1), Str(<<"X">>), Num(5)>>)
NegativeRow == Row(<<Num(1), Str(Infosys), Num(-5)>>)
SwappedRow == Row(<<Num(1), Num(100), Str(Infosys)>>)
SwappedGrandTotalRow == Row(<<Num(1), Num(100), Str(GrandTotal)>>)

DataRows ==
    {PlainRow, GrandTotalPlainRow, TcsCommaRow, OneLetterRow, NegativeRow,
     SwappedRow, SwappedGrandTotalRow, InfosysRow, GrandTotalRow, Hole}

HeaderRows == {<<>>, <<HeaderRow>>, <<OtherHeaderRow>>}

ExtractSheets ==
    {head \o rows :
        head \in HeaderRows,
        rows \in UNION {[1..n -> DataRows] : n \in 0..MaxSheetRows}}

ExtractFileNames == {AliceFileName, BobFileName}

\* extractOwnerFromFilename(file.name) for the names above, computed once
OwnerLabels == [name \in ExtractFileNames |-> extractOwnerFromFilename(name)]

InitExtract ==
    /\ InitUpload
    /\ IdleSort
    /\ AuthReady
    /\ nameIn \in ExtractFileNames
    /\ ownerOut = <<>>
    /\ sheetIn \in ExtractSheets
    /\ mappingOut = [dataStartRow |-> -1, companyColIndex |-> DefaultCompanyColIndex,
                     totalColIndex |-> DefaultTotalColIndex]
    /\ newDataOut = <<>>
    /\ phase = "in"

\* the body of the try block for one file, from the owner label to newData
ProcessSheet ==
    /\ phase = "in"
    /\ ownerOut' = OwnerLabels[nameIn]
    /\ mappingOut' = DetectFormat(sheetIn)
    /\ newDataOut' = ExtractRows(sheetIn, mappingOut', ownerOut')
    /\ phase' = "out"
    /\ UNCHANGED <<nameIn, sheetIn>>
    /\ UNCHANGED uploadVars
    /\ UNCHANGED sortVars
    /\ UNCHANGED authVars

NextExtract == ProcessSheet

SpecExtract == InitExtract /\ [][NextExtract]_vars

(***************************************************************************)
(* The pivot table on screen: getOwners, handleSort, getSortedEntries and  *)
(* the two exports                                                         *)
(***************************************************************************)
Alice == <<"A","l","i","c","e">>
Bob == <<"B","o","b">>
CompanyName == <<"C","o","m","p","a","n","y"," ","N","a","m","e">>
CsvDownloaded == Alert("success", "CSV downloaded!", <<>>, 0, 0)
ExcelDownloaded == Alert("success", "Excel downloaded!", <<>>, 0, 0)

\* owners.add(key): a Set keeps the first insertion only
AddOwner(owners, key) ==
    IF key = TotalHoldings \/ (\E i \in 1..Len(owners) : owners[i] = key)
    THEN owners
    ELSE Append(owners, key)

\* Object.keys(row).forEach over the keys i.. of one row
RECURSIVE AddOwnersOfRow(_, _, _)
AddOwnersOfRow(owners, row, i) ==
    IF i > Len(row) THEN owners
    ELSE AddOwnersOfRow(AddOwner(owners, row[i].key), row, i + 1)

\* Object.values(data).forEach over the rows i.. of the table
RECURSIVE AddOwnersFrom(_, _, _)
AddOwnersFrom(owners, data, i) ==
    IF i > Len(data) THEN owners
    ELSE AddOwnersFrom(AddOwnersOfRow(owners, data[i].value, 1), data, i + 1)

getOwners(data) == AddOwnersFrom(<<>>, data, 1)

\* localeCompare on the characters of this model: blanks, then digits, then
\* letters without regard to case; lower case first among equal letters
CollationOrder == <<" ">> \o Digits \o LowerLetters
PrimaryWeight(c) == CHOOSE i \in 1..Len(CollationOrder) : CollationOrder[i] = LowerChar(c)
CaseWeight(c) == IF IsUpper(c) THEN 1 ELSE 0

RECURSIVE CompareWeights(_, _)
CompareWeights(x, y) ==
    IF x = <<>> /\ y = <<>> THEN 0
    ELSE IF x = <<>> THEN -1
    ELSE IF y = <<>> THEN 1
    ELSE IF x[1] < y[1] THEN -1
    ELSE IF x[1] > y[1] THEN 1
    ELSE CompareWeights(Tail(x), Tail(y))

LocaleCompare(x, y) ==
    LET primary == CompareWeights([i \in 1..Len(x) |-> PrimaryWeight(x[i])],
                                  [i \in 1..Len(y) |-> PrimaryWeight(y[i])])
    IN  IF primary # 0 THEN primary
        ELSE CompareWeights([i \in 1..Len(x) |-> CaseWeight(x[i])],
                            [i \in 1..Len(y) |-> CaseWeight(y[i])])

\* aVal / bVal of the comparator for a numeric column
NumericVal(entry, column) ==
    IF column = TotalHoldings THEN Get(entry.value, TotalHoldings)
    ELSE GetOrZero(entry.value, column)

\* the mutant of CompareEntries: sortDirection not looked at
CompareEntriesAscending(a, b, column, direction) ==
    IF column = CompanyName THEN LocaleCompare(a.key, b.key)
    ELSE NumericVal(a, column) - NumericVal(b, column)

\* the comparator handed to entries.sort
CompareEntries(a, b, column, direction) ==
    IF column = CompanyName
    THEN IF direction = "asc" THEN LocaleCompare(a.key, b.key)
         ELSE LocaleCompare(b.key, a.key)
    ELSE IF direction = "asc"
         THEN NumericVal(a, column) - NumericVal(b, column)
         ELSE NumericVal(b, column) - NumericVal(a, column)

\* Array.prototype.sort is stable: x goes behind everything that does not
\* compare greater than it
RECURSIVE InsertSorted(_, _, _, _)
InsertSorted(sorted, x, column, direction) ==
    IF sorted = <<>> THEN <<x>>
    ELSE IF CompareEntries(sorted[Len(sorted)], x, column, direction) > 0
    THEN Append(InsertSorted(SubSeq(sorted, 1, Len(sorted) - 1), x, column,
                             direction),
                sorted[Len(sorted)])
    ELSE Append(sorted, x)

RECURSIVE StableSort(_, _, _)
StableSort(entries, column, direction) ==
    IF entries = <<>> THEN <<>>
    ELSE InsertSorted(StableSort(SubSeq(entries, 1, Len(entries) - 1), column,
                                 direction),
                      entries[Len(entries)], column, direction)

\* the table is the sequence Object.entries(data) gives
getSortedEntries(data, column, direction) ==
    IF column.null THEN data ELSE StableSort(data, column.name, direction)

\* the mutant of DataAfterSort: the table itself put in the sorted order
DataSortedInPlace(data, column, direction) ==
    getSortedEntries(data, column, direction)

\* data after getSortedEntries: Object.entries builds a new array, sort
\* reorders that array, and the comparator only reads the rows
DataAfterSort(data, column, direction) == data

\* the render of the pivot table: header cells and body rows
RenderTable(column, direction) ==
    /\ pivotData' = IF pivotData.null THEN pivotData
                    ELSE PivotOf(DataAfterSort(pivotData.table, column, direction))
    /\ ownersOut' = IF pivotData.null THEN <<>> ELSE getOwners(pivotData.table)
    /\ sortedOut' = IF pivotData.null THEN <<>>
                    ELSE getSortedEntries(pivotData.table, column, direction)

Render ==
    /\ phase = "in"
    /\ phase' = "out"
    /\ RenderTable(sortColumn, sortDirection)
    /\ UNCHANGED <<sortColumn, sortDirection, exportOut>>
    /\ UNCHANGED <<files, allData, alerts, timers, debugPreview, calls>>
    /\ UNCHANGED <<nameIn, ownerOut, sheetIn, mappingOut, newDataOut>>
    /\ UNCHANGED authVars

\* handleSort(column), and the render its state change brings
HandleSort(column) ==
    /\ MainScreen
    /\ phase = "out"
    /\ ~pivotData.null
    /\ column \in {CompanyName, TotalHoldings} \cup {ownersOut[i] : i \in 1..Len(ownersOut)}
    /\ IF ~sortColumn.null /\ sortColumn.name = column
       THEN /\ sortDirection' = IF sortDirection = "asc" THEN "desc" ELSE "asc"
            /\ sortColumn' = sortColumn
       ELSE /\ sortColumn' = Column(column)
            /\ sortDirection' = IF column = CompanyName THEN "asc" ELSE "desc"
    /\ RenderTable(sortColumn', sortDirection')
    /\ UNCHANGED exportOut
    /\ UNCHANGED <<files, allData, alerts, timers, debugPreview, calls>>
    /\ UNCHANGED pureVars
    /\ UNCHANGED authVars

\* one row of an export: company, data[owner] || 0 per owner, the total
ExportRow(entry, owners) ==
    <<entry.key>> \o [i \in 1..Len(owners) |-> GetOrZero(entry.value, owners[i])]
    \o <<Get(entry.value, TotalHoldings)>>

\* headers and rows as exportToCSV and exportToExcel build them (the text
\* of the CSV and the bytes of the workbook are not part of this model)
ExportOf(kind, data) ==
    [kind |-> kind,
     headers |-> <<CompanyName>> \o getOwners(data) \o <<TotalHoldings>>,
     rows |-> [i \in 1..Len(data) |-> ExportRow(data[i], getOwners(data))]]

MaxExports == 1

Export(kind, done) ==
    /\ timers < MaxExports
    /\ IF pivotData.null
       THEN UNCHANGED <<exportOut, alerts, timers>>
       ELSE /\ exportOut' = ExportOf(kind, pivotData.table)
            /\ alerts' = Append(alerts, done)
            /\ timers' = timers + 1
    /\ UNCHANGED <<files, allData, pivotData, debugPreview, calls>>
    /\ UNCHANGED <<sortColumn, sortDirection, sortedOut, ownersOut>>
    /\ UNCHANGED pureVars
    /\ UNCHANGED authVars

exportToCSV ==
    /\ MainScreen
    /\ phase = "out"
    /\ Export("csv", CsvDownloaded)

exportToExcel ==
    /\ MainScreen
    /\ phase = "out"
    /\ Export("xlsx", ExcelDownloaded)

\* the tables: the folds of up to MaxRecords records
ACC == <<"A","C","C">>
Bel == <<"B","e","l">>
CESC == <<"C","E","S","C">>
ScripCode == <<"5","0","0","2","0","9">>
HoldingRecord(company, owner, total) ==
    [companyName |-> company, total |-> total, ownerName |-> owner]

SortRecords ==
    {HoldingRecord(ACC, Alice, 50), HoldingRecord(Bel, Alice, 50),
     HoldingRecord(CESC, Bob, 10), HoldingRecord(ScripCode, Bob, 50),
     HoldingRecord(ACC, Bob, 10), HoldingRecord(CESC, Alice, 50)}

MaxRecords == 3

InitSort ==
    /\ files = <<>>
    /\ allData \in UNION {[1..n -> SortRecords] : n \in 0..MaxRecords}
    /\ pivotData = IF allData = <<>> THEN PivotNull ELSE PivotOf(BuildPivot(allData))
    /\ alerts = <<>>
    /\ timers = 0
    /\ debugPreview = NoPreview
    /\ calls = <<>>
    /\ IdleOwner
    /\ IdleDetect
    /\ IdleExtract
    /\ IdleSort
    /\ AuthReady
    /\ phase = "in"

NextSort ==
    \/ Render
    \/ \E column \in {CompanyName, TotalHoldings, Alice, Bob} : HandleSort(column)
    \/ exportToCSV
    \/ exportToExcel
    \/ AlertTimeout

SpecSort == InitSort /\ [][NextSort]_vars

\* the tables of three owners: records of one-row files of Alice, Bob and
\* Carol, folded in the order of upload
Carol == <<"C","a","r","o","l">>

ColumnRecords ==
    {HoldingRecord(ACC, Alice, 50), HoldingRecord(Bel, Bob, 10),
     HoldingRecord(ACC, Carol, 20), HoldingRecord(Bel, Alice, 50),
     HoldingRecord(ACC, Bob, 10)}

InitColumns ==
    /\ files = <<>>
    /\ allData \in UNION {[1..n -> ColumnRecords] : n \in 0..MaxRecords}
    /\ pivotData = IF allData = <<>> THEN PivotNull ELSE PivotOf(BuildPivot(allData))
    /\ alerts = <<>>
    /\ timers = 0
    /\ debugPreview = NoPreview
    /\ calls = <<>>
    /\ IdleOwner
    /\ IdleDetect
    /\ IdleExtract
    /\ IdleSort
    /\ AuthReady
    /\ phase = "in"

NextColumns ==
    \/ Render
    \/ exportToCSV
    \/ exportToExcel
    \/ AlertTimeout

SpecColumns == InitColumns /\ [][NextColumns]_vars

(***************************************************************************)
(* AuthProvider and handleLogout, with the uploads of a signed-in user     *)
(***************************************************************************)
\* the mutant of isSupabaseConfigured: one of the two variables is enough
IsSupabaseConfiguredEither(url, key) == url \/ key

\* !!(supabaseUrl && supabaseAnonKey)
isSupabaseConfigured(url, key) == url /\ key

SignedOutAlert == Alert("info", "Signed out successfully", <<>>, 0, 0)
SignOutFailedAlert == Alert("error", "Failed to sign out", <<>>, 0, 0)

MaxLogoutAlerts == 1

FetchFailedAlert == Alert("error", "Failed to load saved pivots", <<>>, 0, 0)

MaxFetches == 2

\* fetchSavedPivots up to its await: if (!user) return; the query is sent
StartFetch(u) ==
    /\ Len(fetches) < MaxFetches
    /\ fetches' = Append(fetches, u)
    /\ UNCHANGED savedPivots

\* the effect of App on [user, fetchSavedPivots], run when user changed from
\* old to new
UserEffect(old, new) ==
    IF new = old THEN UNCHANGED savedVars
    ELSE IF new # NoUser THEN StartFetch(new)
    ELSE savedPivots' = <<>> /\ UNCHANGED fetches

InitAuth ==
    /\ InitUpload
    /\ IdleOwner
    /\ IdleDetect
    /\ IdleExtract
    /\ IdleSort
    /\ supabaseUrl \in BOOLEAN
    /\ supabaseAnonKey \in BOOLEAN
    /\ supabaseClient = "null"
    /\ user = NoUser
    /\ session = NoSession
    /\ loading = TRUE
    /\ isConfigured = FALSE
    /\ authPc = "mount"
    /\ logoutPc = "idle"
    /\ savedPivots = <<>>
    /\ fetches = <<>>
    /\ phase = "app"

\* the effect of AuthProvider, up to the return of its first run.
\* getSupabaseClient throws when a variable is missing; createClient may
\* throw for the values it is given
MountAuthProvider(createClientThrows) ==
    /\ authPc = "mount"
    /\ isConfigured' = isSupabaseConfigured(supabaseUrl, supabaseAnonKey)
    /\ IF ~isSupabaseConfigured(supabaseUrl, supabaseAnonKey)
       THEN /\ loading' = FALSE
            /\ authPc' = "unconfigured"
            /\ UNCHANGED supabaseClient
       ELSE IF ~(supabaseUrl /\ supabaseAnonKey) \/ createClientThrows
       THEN /\ loading' = FALSE
            /\ authPc' = "failed"
            /\ UNCHANGED supabaseClient
       ELSE /\ supabaseClient' = "created"
            /\ authPc' = "listening"
            /\ UNCHANGED loading
    /\ UNCHANGED <<supabaseUrl, supabaseAnonKey, user, session, logoutPc>>
    /\ UNCHANGED uploadVars
    /\ UNCHANGED pureVars
    /\ UNCHANGED sortVars
    /\ UNCHANGED savedVars

\* the callback given to onAuthStateChange, for any event of the client
AuthStateChange(s) ==
    /\ authPc \in {"listening", "settled"}
    /\ session' = s
    /\ user' = UserOf(s)
    /\ loading' = FALSE
    /\ UNCHANGED <<supabaseUrl, supabaseAnonKey, supabaseClient, isConfigured,
                   authPc, logoutPc>>
    /\ UNCHANGED uploadVars
    /\ UNCHANGED pureVars
    /\ UNCHANGED sortVars
    /\ UserEffect(user, UserOf(s))

\* getSession().then(...), with or without a session (an error comes with
\* no session and is logged)
GetSessionResolves(s) ==
    /\ authPc = "listening"
    /\ session' = s
    /\ user' = UserOf(s)
    /\ loading' = FALSE
    /\ authPc' = "settled"
    /\ UNCHANGED <<supabaseUrl, supabaseAnonKey, supabaseClient, isConfigured,
                   logoutPc>>
    /\ UNCHANGED uploadVars
    /\ UNCHANGED pureVars
    /\ UNCHANGED sortVars
    /\ UserEffect(user, UserOf(s))

\* the mutant of GetSessionRejects: a catch that leaves loading as it is
GetSessionRejectsKeepsLoading ==
    /\ authPc = "listening"
    /\ authPc' = "settled"
    /\ UNCHANGED <<supabaseUrl, supabaseAnonKey, supabaseClient, user, session,
                   loading, isConfigured, logoutPc>>
    /\ UNCHANGED uploadVars
    /\ UNCHANGED pureVars
    /\ UNCHANGED sortVars
    /\ UNCHANGED savedVars

\* getSession().catch(...)
GetSessionRejects ==
    /\ authPc = "listening"
    /\ loading' = FALSE
    /\ authPc' = "settled"
    /\ UNCHANGED <<supabaseUrl, supabaseAnonKey, supabaseClient, user, session,
                   isConfigured, logoutPc>>
    /\ UNCHANGED uploadVars
    /\ UNCHANGED pureVars
    /\ UNCHANGED sortVars
    /\ UNCHANGED savedVars

\* handleLogout up to await signOut(); signOut up to await client.auth.signOut()
HandleLogout ==
    /\ MainScreen
    /\ logoutPc = "idle"
    /\ timers < MaxLogoutAlerts
    /\ logoutPc' = "await"
    /\ UNCHANGED <<supabaseUrl, supabaseAnonKey, supabaseClient, user, session,
                   loading, isConfigured, authPc>>
    /\ UNCHANGED uploadVars
    /\ UNCHANGED pureVars
    /\ UNCHANGED sortVars
    /\ UNCHANGED savedVars

\* client.auth.signOut() ends: without an error after it has told the
\* subscribers SIGNED_OUT, or with an error
SignOutSettles(error) ==
    /\ logoutPc = "await"
    /\ IF error
       THEN /\ logoutPc' = "rejected"
            /\ UNCHANGED <<user, session, loading>>
            /\ UNCHANGED savedVars
       ELSE /\ logoutPc' = "resolved"
            /\ session' = NoSession
            /\ user' = NoUser
            /\ loading' = FALSE
            /\ UserEffect(user, NoUser)
    /\ UNCHANGED <<supabaseUrl, supabaseAnonKey, supabaseClient, isConfigured, authPc>>
    /\ UNCHANGED uploadVars
    /\ UNCHANGED pureVars
    /\ UNCHANGED sortVars

\* handleLogout after await signOut(): the reset, or the catch
ResumeLogout ==
    /\ logoutPc \in {"resolved", "rejected"}
    /\ logoutPc' = "idle"
    /\ IF logoutPc = "resolved"
       THEN /\ files' = <<>>
            /\ allData' = <<>>
            /\ pivotData' = PivotNull
            /\ savedPivots' = <<>>
            /\ alerts' = Append(alerts, SignedOutAlert)
       ELSE /\ alerts' = Append(alerts, SignOutFailedAlert)
            /\ UNCHANGED <<files, allData, pivotData, savedPivots>>
    /\ timers' = timers + 1
    /\ UNCHANGED <<debugPreview, calls>>
    /\ UNCHANGED <<supabaseUrl, supabaseAnonKey, supabaseClient, user, session,
                   loading, isConfigured, authPc>>
    /\ UNCHANGED pureVars
    /\ UNCHANGED sortVars
    /\ UNCHANGED fetches

\* fetchSavedPivots after its await: the rows of the user the query was sent
\* for, or the catch; the calls settle in any order
FetchSettles(k, error) ==
    /\ k \in 1..Len(fetches)
    /\ fetches' = SubSeq(fetches, 1, k - 1) \o SubSeq(fetches, k + 1, Len(fetches))
    /\ IF error
       THEN /\ timers < MaxLogoutAlerts
            /\ alerts' = Append(alerts, FetchFailedAlert)
            /\ timers' = timers + 1
            /\ UNCHANGED savedPivots
       ELSE /\ savedPivots' = SavedRows(fetches[k])
            /\ UNCHANGED <<alerts, timers>>
    /\ UNCHANGED <<files, allData, pivotData, debugPreview, calls>>
    /\ UNCHANGED <<supabaseUrl, supabaseAnonKey, supabaseClient, user, session,
                   loading, isConfigured, authPc, logoutPc>>
    /\ UNCHANGED pureVars
    /\ UNCHANGED sortVars

AuthBatches == {<<AliceFile>>}

NextAuth ==
    \/ \E createClientThrows \in BOOLEAN : MountAuthProvider(createClientThrows)
    \/ \E s \in {NoSession, SessionOf(UserId)} : AuthStateChange(s)
    \/ \E s \in {NoSession, SessionOf(UserId)} : GetSessionResolves(s)
    \/ GetSessionRejects
    \/ HandleLogout
    \/ \E error \in BOOLEAN : SignOutSettles(error)
    \/ ResumeLogout
    \/ \E k \in 1..MaxFetches, error \in BOOLEAN : FetchSettles(k, error)
    \/ \E b \in AuthBatches : HandleFileInput(b)
    \/ \E k \in 1..MaxUploads : ResumeFile(k)
    \/ ClearAll
    \/ AlertTimeout

SpecAuth == InitAuth /\ [][NextAuth]_vars

\* the start of the app: AuthProvider and the handlers that follow the
\* identity.  The effect of AuthProvider runs once the provider is mounted,
\* and the promise of getSession() settles
NextStartup ==
    \/ \E createClientThrows \in BOOLEAN : MountAuthProvider(createClientThrows)
    \/ \E s \in {NoSession, SessionOf(UserId)} : AuthStateChange(s)
    \/ \E s \in {NoSession, SessionOf(UserId)} : GetSessionResolves(s)
    \/ GetSessionRejects
    \/ HandleLogout
    \/ \E error \in BOOLEAN : SignOutSettles(error)
    \/ ResumeLogout
    \/ \E k \in 1..MaxFetches, error \in BOOLEAN : FetchSettles(k, error)
    \/ AlertTimeout

SpecStartup ==
    /\ InitAuth
    /\ [][NextStartup]_vars
    /\ WF_vars(\E createClientThrows \in BOOLEAN : MountAuthProvider(createClientThrows))
    /\ WF_vars((\E s \in {NoSession, SessionOf(UserId)} : GetSessionResolves(s))
               \/ GetSessionRejects)

(***************************************************************************)
(* What the claims are stated with                                         *)
(***************************************************************************)
\* a pivot table as the set of its <<company, column, value>> entries
Entries(table) ==
    UNION {{<<table[i].key, table[i].value[j].key, table[i].value[j].value>> :
               j \in 1..Len(table[i].value)} : i \in 1..Len(table)}

RECURSIVE SumOfOwners(_)
SumOfOwners(row) ==
    IF row = <<>> THEN 0
    ELSE (IF row[1].key = TotalHoldings THEN 0 ELSE row[1].value)
         + SumOfOwners(Tail(row))

RECURSIVE Concat(_)
Concat(seqs) == IF seqs = <<>> THEN <<>> ELSE seqs[1] \o Concat(Tail(seqs))

\* every record extracted by every processFiles call, in the order started
RecordsOfCalls == Concat([k \in 1..Len(calls) |-> calls[k].newData])

Occurrences(recs, r) == Cardinality({i \in 1..Len(recs) : recs[i] = r})
Repeat(r, n) == [i \in 1..n |-> r]

RECURSIVE InFixedOrder(_, _)
InFixedOrder(recs, left) ==
    IF left = {} THEN <<>>
    ELSE LET r == CHOOSE x \in left : TRUE
         IN  Repeat(r, Occurrences(recs, r)) \o InFixedOrder(recs, left \ {r})

\* the records of recs in an order that depends on their multiset alone
CanonicalOrder(recs) == InFixedOrder(recs, {recs[i] : i \in 1..Len(recs)})

\* pivotData shows exactly the fold of recs (null when there is none)
PivotIsFoldOf(recs) ==
    IF recs = <<>> THEN pivotData.null
    ELSE /\ ~pivotData.null
         /\ Entries(pivotData.table) = Entries(BuildPivot(recs))

(***************************************************************************)
(* C1: whenever pivotData is not null, every company's 'Total Holdings'    *)
(* equals the sum of the values under its other (owner) keys, whatever     *)
(* owner label extractOwnerFromFilename returned.                          *)
(***************************************************************************)
C1_TotalIsSumOfOwners ==
    pivotData.null \/
    \A i \in 1..Len(pivotData.table) :
        Get(pivotData.table[i].value, TotalHoldings)
            = SumOfOwners(pivotData.table[i].value)

C3_NoUploadLost ==
    AllDone => PivotIsFoldOf(RecordsOfCalls) /\ PivotIsFoldOf(allData)

(***************************************************************************)
(* C4: a step that is not a reset (clearAll) removes no company key and no *)
(* owner key of a company from pivotData.                                  *)
(***************************************************************************)
KeysOf(pivot) ==
    IF pivot.null THEN {}
    ELSE {<<e[1], e[2]>> : e \in Entries(pivot.table)}

C4_PivotGrowsBetweenResets ==
    [][ClearAll \/ KeysOf(pivotData) \subseteq KeysOf(pivotData')]_vars

(***************************************************************************)
(* C5: a file whose decoding fails adds no record and raises one error     *)
(* alert naming it, and the files after it in the batch are processed as   *)
(* if it had not been there: a call's newData is always what the decodable *)
(* files among those it has gone through yield, and what a completed call  *)
(* appends to allData is what the decodable files of its batch yield.      *)
(***************************************************************************)
Decodes(f) == Catalogue[f].decodes

\* what processFiles extracts from the files of batch, one after the other
RecordsOfBatch(batch) ==
    Concat([i \in 1..Len(batch) |-> Outcomes[batch[i]].records])

\* the files call has gone through
FilesDone(call) ==
    IF call.pc = "done" THEN call.batch ELSE SubSeq(call.batch, 1, call.idx - 1)

NewDataSkipsFailedFiles ==
    \A k \in 1..Len(calls) :
        calls[k].newData = RecordsOfBatch(SelectSeq(FilesDone(calls[k]), Decodes))

ErrorAlertsFor(shown, name) ==
    Cardinality({i \in 1..Len(shown) : shown[i] = ErrorAlert(name)})

\* the step in which call k goes through a file that does not decode
FailedFileStep(k) ==
    /\ k \in 1..Len(calls)
    /\ calls[k].pc = "await"
    /\ calls'[k] # calls[k]
    /\ ~Decodes(calls[k].batch[calls[k].idx])

FailedFileIsolated(k) ==
    /\ calls'[k].newData = calls[k].newData
    /\ ErrorAlertsFor(alerts', Catalogue[calls[k].batch[calls[k].idx]].name)
         = ErrorAlertsFor(alerts, Catalogue[calls[k].batch[calls[k].idx]].name) + 1
    /\ Cardinality({i \in 1..Len(alerts') : alerts'[i].type = "error"})
         = Cardinality({i \in 1..Len(alerts) : alerts[i].type = "error"}) + 1

\* the step in which call k completes
CompletionStep(k) ==
    /\ k \in 1..Len(calls)
    /\ calls[k].pc = "await"
    /\ calls'[k].pc = "done"

C5_FailedFileIsIsolated ==
    [][/\ NewDataSkipsFailedFiles'
       /\ \A k \in 1..MaxUploads :
            /\ FailedFileStep(k) => FailedFileIsolated(k)
            /\ CompletionStep(k) =>
                 allData' = allData \o RecordsOfBatch(SelectSeq(calls[k].batch, Decodes))]_vars

\* a completed call whose batch had a failing file followed by one with records
C5_Witness ==
    \E k \in 1..Len(calls) :
        /\ calls[k].pc = "done"
        /\ Len(calls[k].batch) = 2
        /\ ~Decodes(calls[k].batch[1])
        /\ Decodes(calls[k].batch[2])
        /\ calls[k].newData # <<>>
        /\ ~pivotData.null

(***************************************************************************)
(* C6: after 'CLIENT Alice CLIENT-ID.xlsx' (Infosys 100) and 'CLIENT Bob   *)
(* CLIENT-ID.xlsx' (Infosys 50, TCS 20) were uploaded, in either order, in *)
(* one batch or two, pivotData is {Infosys: {Alice: 100, Bob: 50, 'Total   *)
(* Holdings': 150}, TCS: {Bob: 20, 'Total Holdings': 20}}.                 *)
(***************************************************************************)

AliceAndBobUploaded ==
    /\ AllDone
    /\ Len(files) = 2
    /\ \E i, j \in 1..2 :
          /\ i # j
          /\ files[i] = AliceFile
          /\ files[j] \in {BobFile, BobFileSwapped}

JohnDoeFileName == <<"C","L","I","E","N","T"," ","J","o","h","n","_","D","o","e"," ","C","L","I","E","N","T","-","I","D"," ","1","2","3",".","x","l","s","x">>
JohnDoe == <<"J","o","h","n"," ","D","o","e">>
SpelledNames == {<<"A","l","i","c","e">>, <<"J","o","h","n","_","D","o","e">>, <<"A","-","B">>}

UnderscoresAndHyphensToSpaces(name) ==
    ReplaceAll(ReplaceAll(Trim(name), "_", " "), "-", " ")

C7_OwnerFromClientPattern ==
    phase = "out" =>
        /\ nameIn = JohnDoeFileName => ownerOut = JohnDoe
        /\ \A a \in NamePrefixes, b \in NameKeywords \ {<<>>}, c \in NameGaps,
              d \in SpelledNames, e \in NameGaps, f \in NameIdKeywords \ {<<>>},
              g \in NameSuffixes, h \in NameExtensions :
              nameIn = a \o b \o c \o d \o e \o f \o g \o h
                  => ownerOut = UnderscoresAndHyphensToSpaces(d)

(***************************************************************************)
(* C8: when the CLIENT ... CLIENT-ID pattern is not in the file name,      *)
(* extractOwnerFromFilename returns the name without one trailing .xlsx or *)
(* .csv (in any case), and the name itself when it ends in neither.        *)
(***************************************************************************)
\* CLIENT, then a non-empty run without - | _, then CLIENT-ID
PatternPresent(s) ==
    \E p \in {x \in 1..Len(s) : StartsAtIgnoreCase(s, x, CLIENT)} :
        \E d \in {x \in 1..Len(s) : StartsAtIgnoreCase(s, x, CLIENT_ID)} :
            /\ d >= p + 7
            /\ \A k \in (p + 6)..(d - 1) : s[k] \notin {"-", "|", "_"}

HasExtension(s, ext) ==
    /\ Len(s) >= Len(ext)
    /\ ToLowerCase(SubSeq(s, Len(s) - Len(ext) + 1, Len(s))) = ext

C8_FallbackStripsExtension ==
    (phase = "out" /\ ~PatternPresent(nameIn)) =>
        \/ \E ext \in {DotXlsx, DotCsv} :
              /\ HasExtension(nameIn, ext)
              /\ ownerOut = SubSeq(nameIn, 1, Len(nameIn) - Len(ext))
        \/ /\ ~HasExtension(nameIn, DotXlsx)
           /\ ~HasExtension(nameIn, DotCsv)
           /\ ownerOut = nameIn

\* a name that nearly holds the pattern and ends in an upper-case extension
C8_Witness ==
    /\ phase = "out"
    /\ ~PatternPresent(nameIn)
    /\ \E p \in 1..Len(nameIn) : StartsAtIgnoreCase(nameIn, p, CLIENT_ID)
    /\ HasExtension(nameIn, DotXlsx)
    /\ ~EndsWith(nameIn, DotXlsx)
    /\ Len(ownerOut) = Len(nameIn) - 5

(***************************************************************************)
(* C9 as claimed: if row i (i < 15) is the first candidate data row (its   *)
(* first cell looks like an ISIN, or it has at least 10 cells with cells 2 *)
(* and 9 numeric), dataStartRow = i whatever the row's length.             *)
(***************************************************************************)
CellText(cell) == Trim(ToLowerCase(StringOrEmpty(cell)))

NoHeaderKeyword(rawData) ==
    \A i \in 1..Len(rawData) : \A j \in 1..Len(rawData[i].cells) :
        /\ ~IsCompanyHeader(CellText(rawData[i].cells[j]))
        /\ ~IsTotalHeader(CellText(rawData[i].cells[j]))

IsCandidate(row) == ~row.hole /\ (HasISIN(row) \/ HasNumericData(row))

FirstCandidate(rawData, i) ==
    /\ i < Len(rawData)
    /\ i < ScanWindow
    /\ IsCandidate(rawData[i + 1])
    /\ \A j \in 0..(i - 1) : ~IsCandidate(rawData[j + 1])

C9_FirstCandidateAnyLength ==
    phase = "out" =>
        \A i \in 0..(ScanWindow - 1) :
            FirstCandidate(sheetIn, i) => mappingOut.dataStartRow = i

(***************************************************************************)
(* C9 as amended: if row i (i < 15) is the first row that has at least 3   *)
(* cells and is a candidate data row, dataStartRow = i, whatever           *)
(* dataStartRow the header rows before it gave, and no row after i has a   *)
(* part in the mapping.                                                    *)
(***************************************************************************)
IsWideCandidate(row) == IsCandidate(row) /\ Len(row.cells) >= MinRowLength

FirstWideCandidate(rawData, i) ==
    /\ i < Len(rawData)
    /\ i < ScanWindow
    /\ IsWideCandidate(rawData[i + 1])
    /\ \A j \in 0..(i - 1) : ~IsWideCandidate(rawData[j + 1])

C9_FirstWideCandidateWins ==
    phase = "out" =>
        \A i \in 0..(ScanWindow - 1) :
            FirstWideCandidate(sheetIn, i) =>
                /\ mappingOut.dataStartRow = i
                /\ mappingOut = DetectFormat(SubSeq(sheetIn, 1, i + 1))

\* a data row at index 1 below a two-cell row that starts with an ISIN, and
\* above a header row
C9_Witness ==
    /\ phase = "out"
    /\ Len(sheetIn) = 3
    /\ IsCandidate(sheetIn[1])
    /\ FirstWideCandidate(sheetIn, 1)
    /\ ~NoHeaderKeyword(SubSeq(sheetIn, 3, 3))
    /\ mappingOut.dataStartRow = 1

(***************************************************************************)
(* C10 as claimed: a sheet of fewer than 15 rows with no header keyword    *)
(* and no ISIN pattern gives dataStartRow = 5, companyColIndex = 1 and     *)
(* totalColIndex = 9.                                                      *)
(***************************************************************************)
NoISIN(rawData) == \A i \in 1..Len(rawData) : ~HasISIN(rawData[i])

NoNumericRow(rawData) == \A i \in 1..Len(rawData) : ~HasNumericData(rawData[i])

FallbackMapping ==
    [dataStartRow |-> 5, companyColIndex |-> 1, totalColIndex |-> 9]

C10_FallbackWithoutHeaderOrISIN ==
    (/\ phase = "out"
     /\ Len(sheetIn) < 15
     /\ NoHeaderKeyword(sheetIn)
     /\ NoISIN(sheetIn)) => mappingOut = FallbackMapping

(***************************************************************************)
(* C10 as amended: a sheet of fewer than 15 rows with no header keyword,   *)
(* no ISIN pattern and no row of at least 10 cells whose cells 2 and 9 are *)
(* numbers gives dataStartRow = 5, companyColIndex = 1, totalColIndex = 9. *)
(***************************************************************************)
C10_FallbackWithoutAnySignal ==
    (/\ phase = "out"
     /\ Len(sheetIn) < 15
     /\ NoHeaderKeyword(sheetIn)
     /\ NoISIN(sheetIn)
     /\ NoNumericRow(sheetIn)) => mappingOut = FallbackMapping

\* a sheet with rows that are scanned and carry no signal
C10_Witness ==
    /\ phase = "out"
    /\ Len(sheetIn) >= 2
    /\ Len(sheetIn) < 15
    /\ \A i \in 1..Len(sheetIn) : sheetIn[i] = PlainRow
    /\ mappingOut = FallbackMapping

(***************************************************************************)
(* C11: for every sheet, the empty sheet, sheets with missing rows and     *)
(* with rows shorter than 3 cells among them, the detection ends and gives *)
(* a complete mapping with 0 <= dataStartRow <= 15, companyColIndex >= 0   *)
(* and totalColIndex >= 0.                                                 *)
(***************************************************************************)
CompleteAndBounded(m) ==
    /\ DOMAIN m = {"dataStartRow", "companyColIndex", "totalColIndex"}
    /\ m.dataStartRow \in 0..15
    /\ m.companyColIndex \in Nat
    /\ m.totalColIndex \in Nat

C11_DetectionTotalAndBounded ==
    /\ phase = "in" => CompleteAndBounded(DetectFormat(sheetIn))
    /\ phase = "out" => CompleteAndBounded(mappingOut)

\* the largest value: a header row at index 14, below a missing row and a
\* two-cell row
C11_Witness ==
    /\ phase = "out"
    /\ Len(sheetIn) > 15
    /\ \E i \in 1..Len(sheetIn) : sheetIn[i].hole
    /\ \E i \in 1..Len(sheetIn) : ~sheetIn[i].hole /\ Len(sheetIn[i].cells) = 2
    /\ mappingOut.dataStartRow = 15

(***************************************************************************)
(* C12: the extraction emits one record per row at index >= dataStartRow,  *)
(* in row order, that has at least max(companyColIndex, totalColIndex) + 1 *)
(* cells, a trimmed company name longer than 1 that holds none of 'total', *)
(* 'grand', 'summary' in lower case, and a quantity other than 0; nothing  *)
(* for any other row; each record carries the owner label of the file.     *)
(***************************************************************************)
CompanyNameOf(row, m) == Trim(StringOrEmpty(CellAt(row, m.companyColIndex)))

QuantityOf(row, m) == TotalOf(CellAt(row, m.totalColIndex))

HoldsNoiseWord(name) ==
    \E w \in {KwTotal, KwGrand, KwSummary} :
        \E p \in 1..Len(name) : StartsAt(ToLowerCase(name), p, w)

IsAccepted(row, m) ==
    /\ ~row.hole
    /\ Len(row.cells) >= MaxOf(m.companyColIndex, m.totalColIndex) + 1
    /\ Len(CompanyNameOf(row, m)) > 1
    /\ ~HoldsNoiseWord(CompanyNameOf(row, m))
    /\ QuantityOf(row, m) # 0

\* the indices of the accepted rows, ascending
AcceptedIndices(rawData, m) ==
    SelectSeq([i \in 1..Len(rawData) |-> i - 1],
              LAMBDA i : i >= m.dataStartRow /\ IsAccepted(rawData[i + 1], m))

C12_OneRecordPerAcceptedRow ==
    phase = "out" =>
        LET accepted == AcceptedIndices(sheetIn, mappingOut)
        IN  /\ Len(newDataOut) = Len(accepted)
            /\ \A k \in 1..Len(accepted) :
                  newDataOut[k] =
                      [companyName |-> CompanyNameOf(sheetIn[accepted[k] + 1], mappingOut),
                       total |-> QuantityOf(sheetIn[accepted[k] + 1], mappingOut),
                       ownerName |-> ownerOut]

\* two accepted rows around rejected ones, below a header row
C12_Witness ==
    /\ phase = "out"
    /\ Len(sheetIn) = 4
    /\ sheetIn[1] = HeaderRow
    /\ sheetIn[2] = TcsCommaRow
    /\ sheetIn[3] \in {OneLetterRow, SwappedRow, GrandTotalPlainRow, Hole}
    /\ sheetIn[4] = PlainRow
    /\ Len(newDataOut) = 2
    /\ newDataOut[1].total = 1200
    /\ newDataOut[2].companyName = Infosys

(***************************************************************************)
(* C13: no record of allData (nor of a call's newData) and no company key  *)
(* of pivotData has a name that holds 'total', 'grand' or 'summary' in     *)
(* lower case; a 'Grand Total' row is never emitted.                       *)
(***************************************************************************)
C13_NoSummaryNames ==
    /\ \A i \in 1..Len(allData) : ~HoldsNoiseWord(allData[i].companyName)
    /\ \A k \in 1..Len(calls) : \A i \in 1..Len(calls[k].newData) :
          ~HoldsNoiseWord(calls[k].newData[i].companyName)
    /\ \A i \in 1..Len(pivotData.table) : ~HoldsNoiseWord(pivotData.table[i].key)

\* the file whose sheet ends in a 'Grand Total' row has gone through
C13_Witness ==
    /\ \E k \in 1..Len(calls) :
          /\ calls[k].pc = "done"
          /\ calls[k].batch = <<BobFile>>
          /\ \E i \in 1..Len(Catalogue[BobFile].rawData) :
                HoldsNoiseWord(CompanyNameOf(Catalogue[BobFile].rawData[i],
                                             FallbackMapping))
    /\ Len(allData) = 2
    /\ Len(pivotData.table) = 2

(***************************************************************************)
(* C14: no record with a negative quantity is ever added to allData, and   *)
(* every owner value and every 'Total Holdings' value of pivotData is >= 0 *)
(***************************************************************************)
C14_QuantitiesNonNegative ==
    /\ \A i \in 1..Len(allData) : allData[i].total >= 0
    /\ \A e \in Entries(pivotData.table) : e[3] >= 0

(***************************************************************************)
(* C15: no render of the sorted view, no getOwners and no export changes   *)
(* the table: pivotData keeps its company keys in their order, its owner   *)
(* keys and its values, for every sort column and direction and for none.  *)
(***************************************************************************)
C15_SortingNeverMutatesTable == [][pivotData' = pivotData]_vars

\* a view in another order than the table, and an export, have been made
C15_Witness ==
    /\ phase = "out"
    /\ ~pivotData.null
    /\ ~sortColumn.null
    /\ sortDirection = "desc"
    /\ Len(sortedOut) = 3
    /\ sortedOut # pivotData.table
    /\ Len(ownersOut) = 2
    /\ exportOut.kind = "xlsx"
    /\ pivotData.table = BuildPivot(allData)

(***************************************************************************)
(* C16: two companies that compare equal under the sort column appear in   *)
(* the sorted view in the order in which they were first inserted into the *)
(* table.                                                                  *)
(***************************************************************************)
\* the index in allData of the first record of the company
FirstInserted(company) ==
    CHOOSE i \in 1..Len(allData) :
        /\ allData[i].companyName = company
        /\ \A j \in 1..(i - 1) : allData[j].companyName # company

C16_TiesKeepInsertionOrder ==
    (phase = "out" /\ ~sortColumn.null) =>
        \A i, j \in 1..Len(sortedOut) :
            (/\ i < j
             /\ CompareEntries(sortedOut[i], sortedOut[j], sortColumn.name,
                               sortDirection) = 0)
                => FirstInserted(sortedOut[i].key) < FirstInserted(sortedOut[j].key)

(***************************************************************************)
(* C17: the sorted view is a permutation of the table's entries, ordered   *)
(* by company name for 'Company Name' and otherwise by the row's value     *)
(* under the column, a missing value counting as 0: non-decreasing for     *)
(* 'asc', non-increasing for 'desc'.                                       *)
(***************************************************************************)
ValueUnder(entry, column) ==
    IF \E k \in 1..Len(entry.value) : entry.value[k].key = column
    THEN entry.value[CHOOSE k \in 1..Len(entry.value) : entry.value[k].key = column].value
    ELSE 0

InOrder(a, b, column, direction) ==
    IF column = CompanyName
    THEN IF direction = "asc" THEN LocaleCompare(a.key, b.key) <= 0
         ELSE LocaleCompare(a.key, b.key) >= 0
    ELSE IF direction = "asc" THEN ValueUnder(a, column) <= ValueUnder(b, column)
         ELSE ValueUnder(a, column) >= ValueUnder(b, column)

C17_SortedViewIsOrderedPermutation ==
    (phase = "out" /\ ~pivotData.null /\ ~sortColumn.null) =>
        /\ Len(sortedOut) = Len(pivotData.table)
        /\ {sortedOut[i] : i \in 1..Len(sortedOut)} =
               {pivotData.table[i] : i \in 1..Len(pivotData.table)}
        /\ \A i \in 1..(Len(sortedOut) - 1) :
               InOrder(sortedOut[i], sortedOut[i + 1], sortColumn.name, sortDirection)

\* three companies by an owner that one of them lacks, in another order
\* than the table's
C17_Witness ==
    /\ phase = "out"
    /\ ~pivotData.null
    /\ sortColumn = Column(Bob)
    /\ sortDirection = "asc"
    /\ Len(sortedOut) = 3
    /\ \E i \in 1..3 : ~HasKey(sortedOut[i].value, Bob)
    /\ sortedOut # pivotData.table

(***************************************************************************)
(* C18: once the user is signed out (and no handleLogout is under way),    *)
(* files and allData are empty and pivotData is null, whether the sign-out *)
(* came through handleLogout or as an auth state change of the client.     *)
(***************************************************************************)
C18_SignedOutMeansReset ==
    (user = NoUser /\ logoutPc = "idle") =>
        /\ files = <<>>
        /\ allData = <<>>
        /\ pivotData.null

(***************************************************************************)
(* C19: with the Supabase URL or the anon key missing, isConfigured is     *)
(* false, loading is false once the effect has run, user is null, no       *)
(* client is created, the main screen is never shown and processFiles is   *)
(* never called: allData stays empty and pivotData null.                   *)
(***************************************************************************)
C19_UnconfiguredBlocks ==
    ~(supabaseUrl /\ supabaseAnonKey) =>
        /\ isConfigured = FALSE
        /\ authPc \in {"mount", "unconfigured"}
        /\ authPc = "unconfigured" => loading = FALSE
        /\ user = NoUser
        /\ session = NoSession
        /\ supabaseClient = "null"
        /\ ~MainScreen
        /\ calls = <<>>
        /\ files = <<>>
        /\ allData = <<>>
        /\ pivotData.null

\* the effect has run with the key missing
C19_Witness ==
    /\ supabaseUrl
    /\ ~supabaseAnonKey
    /\ authPc = "unconfigured"
    /\ ~loading
    /\ ~isConfigured

(***************************************************************************)
(* C20: a file that decodes and yields no accepted row raises one warning  *)
(* alert naming it and puts its first 15 raw rows in debugPreview; it adds *)
(* nothing to newData or allData; a file that yields a record leaves       *)
(* debugPreview as it is.                                                  *)
(***************************************************************************)
\* the step in which call k goes through the file it was waiting for
FileStep(k) ==
    /\ k \in 1..Len(calls)
    /\ calls[k].pc = "await"
    /\ calls'[k] # calls[k]

WarningsNaming(shown, name) ==
    Cardinality({i \in 1..Len(shown) :
                    shown[i].type = "warning" /\ shown[i].file = name})

FirstRows(rawData, n) ==
    [i \in 1..(IF Len(rawData) < n THEN Len(rawData) ELSE n) |-> rawData[i]]

NoDataFoundStep(k, file, out) ==
    /\ (out.ok /\ out.records = <<>>) =>
          /\ WarningsNaming(alerts', file.name) = WarningsNaming(alerts, file.name) + 1
          /\ debugPreview' = [null |-> FALSE, filename |-> file.name,
                              rows |-> FirstRows(file.rawData, 15)]
          /\ calls'[k].newData = calls[k].newData
          /\ allData' = IF calls'[k].pc = "done" THEN allData \o calls[k].newData
                        ELSE allData
    /\ (out.ok /\ out.records # <<>>) =>
          /\ debugPreview' = debugPreview
          /\ WarningsNaming(alerts', file.name) = WarningsNaming(alerts, file.name)

C20_NoDataFound ==
    [][\A k \in 1..MaxUploads :
          FileStep(k) => NoDataFoundStep(k, Catalogue[calls[k].batch[calls[k].idx]],
                                         Outcomes[calls[k].batch[calls[k].idx]])]_vars

\* a batch of a file with a record and a sheet of 16 rows without any
C20_Witness ==
    /\ \E k \in 1..Len(calls) :
          /\ calls[k].pc = "done"
          /\ calls[k].batch = <<AliceFile, LongSummaryFile>>
          /\ Len(calls[k].newData) = 1
    /\ ~debugPreview.null
    /\ debugPreview.filename = LongSummaryFileName
    /\ Len(debugPreview.rows) = 15
    /\ Len(Catalogue[LongSummaryFile].rawData) = 16
    /\ WarningsNaming(alerts, LongSummaryFileName) = 1

(***************************************************************************)
(* C21: the column list of the display and of the exports is 'Company      *)
(* Name', then every owner once in the order in which the owners first     *)
(* appear in the folded records, then 'Total Holdings'.                    *)
(***************************************************************************)
RECURSIVE FirstSeenOwners(_)
FirstSeenOwners(records) ==
    IF records = <<>> THEN <<>>
    ELSE LET before == FirstSeenOwners(SubSeq(records, 1, Len(records) - 1))
             owner == records[Len(records)].ownerName
         IN  IF \E i \in 1..Len(before) : before[i] = owner THEN before
             ELSE Append(before, owner)

C21_ColumnsInFirstSeenOrder ==
    /\ (phase = "out" /\ ~pivotData.null) => ownersOut = FirstSeenOwners(allData)
    /\ exportOut.kind # "none" =>
          exportOut.headers = <<CompanyName>> \o FirstSeenOwners(allData)
                              \o <<TotalHoldings>>

(***************************************************************************)
(* C22 as claimed: in a sheet none of whose first 15 rows is a candidate   *)
(* data row, companyColIndex is the column of the last cell, in row-major  *)
(* order over those rows whatever their length, that holds a company       *)
(* keyword, dataStartRow is that cell's row index + 1, totalColIndex is    *)
(* the column of the last cell that holds a total keyword, and the         *)
(* defaults 1, 5 and 9 stay where no such cell exists.                     *)
(***************************************************************************)
\* the cells <<i, j>> of the rows of at least minLength cells among the
\* first 15 whose text satisfies Keyword
HeaderCells(rawData, Keyword(_), minLength) ==
    {p \in (0..(ScanLimit(rawData) - 1)) \X (0..9) :
        /\ ~rawData[p[1] + 1].hole
        /\ Len(rawData[p[1] + 1].cells) >= minLength
        /\ p[2] < Len(rawData[p[1] + 1].cells)
        /\ Keyword(CellText(rawData[p[1] + 1].cells[p[2] + 1]))}

LastCell(cells) ==
    CHOOSE p \in cells :
        \A q \in cells : q[1] < p[1] \/ (q[1] = p[1] /\ q[2] <= p[2])

LastMatchMapping(companyCells, totalCells) ==
    [dataStartRow |-> IF companyCells = {} THEN 5 ELSE LastCell(companyCells)[1] + 1,
     companyColIndex |-> IF companyCells = {} THEN 1 ELSE LastCell(companyCells)[2],
     totalColIndex |-> IF totalCells = {} THEN 9 ELSE LastCell(totalCells)[2]]

NoCandidateInWindow(rawData) ==
    \A i \in 0..(ScanLimit(rawData) - 1) : ~IsCandidate(rawData[i + 1])

C22_LastHeaderAnyLength ==
    (phase = "out" /\ NoCandidateInWindow(sheetIn)) =>
        mappingOut = LastMatchMapping(HeaderCells(sheetIn, IsCompanyHeader, 0),
                                      HeaderCells(sheetIn, IsTotalHeader, 0))

(***************************************************************************)
(* C22 as amended: in a sheet none of whose first 15 rows has at least 3   *)
(* cells and is a candidate data row, the last header cells are taken      *)
(* among the rows of at least 3 cells only.                                *)
(***************************************************************************)
NoWideCandidateInWindow(rawData) ==
    \A i \in 0..(ScanLimit(rawData) - 1) : ~IsWideCandidate(rawData[i + 1])

C22_LastHeaderOfWideRows ==
    (phase = "out" /\ NoWideCandidateInWindow(sheetIn)) =>
        mappingOut = LastMatchMapping(
                        HeaderCells(sheetIn, IsCompanyHeader, MinRowLength),
                        HeaderCells(sheetIn, IsTotalHeader, MinRowLength))

\* two header rows that name different columns, above a two-cell header row
C22_Witness ==
    /\ phase = "out"
    /\ sheetIn = <<HeaderRow, OtherHeaderRow, ShortHeaderRow>>
    /\ mappingOut = [dataStartRow |-> 2, companyColIndex |-> 2, totalColIndex |-> 1]

(***************************************************************************)
(* C23: the detection looks at the first 15 rows only: whatever rows       *)
(* follow the first 15 rows of a sheet, the mapping is the same.           *)
(***************************************************************************)
\* what may stand at index 15 of another sheet: nothing, or a row
OtherTails == UNION {[1..n -> DetectRows] : n \in 0..1}

C23_OnlyFirstRowsCount ==
    (phase = "out" /\ Len(sheetIn) >= ScanWindow) =>
        \A tail \in OtherTails :
            DetectFormat(SubSeq(sheetIn, 1, ScanWindow) \o tail) = mappingOut

\* a header row at index 14 and a data row at index 15
C23_Witness ==
    /\ phase = "out"
    /\ Len(sheetIn) = 17
    /\ sheetIn[15] = HeaderRow
    /\ sheetIn[16] = InfosysRow
    /\ mappingOut.dataStartRow = 15

(***************************************************************************)
(* C24: handleSort on the current sort column flips sortDirection and      *)
(* keeps sortColumn; on another column it selects that column, with 'asc'  *)
(* for 'Company Name' and 'desc' for every other column; while no sort     *)
(* column is selected the rows are shown in the order in which their       *)
(* companies were inserted into the table.                                 *)
(***************************************************************************)
SortStateStep ==
    \/ sortColumn' = sortColumn /\ sortDirection' = sortDirection
    \/ /\ ~sortColumn.null
       /\ sortColumn' = sortColumn
       /\ sortDirection' = IF sortDirection = "asc" THEN "desc" ELSE "asc"
    \/ /\ sortColumn' # sortColumn
       /\ ~sortColumn'.null
       /\ sortDirection' = IF sortColumn'.name = CompanyName THEN "asc" ELSE "desc"

ShownInInsertionOrder ==
    \A i, j \in 1..Len(sortedOut) :
        i < j => FirstInserted(sortedOut[i].key) < FirstInserted(sortedOut[j].key)

C24_HandleSortStateMachine ==
    /\ [][SortStateStep]_vars
    /\ [](phase = "out" /\ sortColumn.null => ShownInInsertionOrder)

(***************************************************************************)
(* C25: after a reset (clearAll or a logout that succeeded) allData and    *)
(* pivotData hold no record of a file whose upload started before the      *)
(* reset, also when the processFiles call of that upload was waiting for   *)
(* the file's bytes at the reset and completes after it.  files is         *)
(* extended when an upload starts and emptied by the resets only, so while *)
(* files is empty every upload there was started before the last reset.    *)
(***************************************************************************)
C25_ResetEmptiesAggregate ==
    files = <<>> => allData = <<>> /\ pivotData.null

(***************************************************************************)
(* C26: whenever user is null and no fetchSavedPivots call is in flight,   *)
(* savedPivots is empty, also when the user signed out while a fetch       *)
(* started for them was awaiting its response.                             *)
(***************************************************************************)
C26_SavedPivotsScopedToIdentity ==
    (user = NoUser /\ fetches = <<>>) => savedPivots = <<>>

(***************************************************************************)
(* C27: on every path of the start (unconfigured, client creation throws,  *)
(* getSession resolves or rejects, an auth state change comes first)       *)
(* loading becomes false at some point, and once false it stays false.     *)
(***************************************************************************)
C27_LoadingEnds ==
    /\ <>(loading = FALSE)
    /\ [][loading = FALSE => loading' = FALSE]_vars

\* getSession() has settled without a user, after the client was created
C27_Witness ==
    /\ authPc = "settled"
    /\ supabaseClient = "created"
    /\ user = NoUser
    /\ loading = FALSE

(***************************************************************************)
(* C28: alerts expire first in, first out: every addAlert appends one      *)
(* alert and sets one timer, every timer that fires removes the oldest     *)
(* alert shown, which is the alert it was set for, since as many alerts    *)
(* are shown as timers are pending; and the list ends up empty.            *)
(***************************************************************************)
IsPrefixOf(a, b) == Len(a) <= Len(b) /\ SubSeq(b, 1, Len(a)) = a

AlertStep ==
    IF timers' < timers
    THEN /\ timers' = timers - 1
         /\ alerts # <<>>
         /\ alerts' = Tail(alerts)
    ELSE /\ IsPrefixOf(alerts, alerts')
         /\ timers' - timers = Len(alerts') - Len(alerts)

C28_AlertsExpireFirstInFirstOut ==
    /\ [](timers = Len(alerts))
    /\ [][AlertStep]_vars
    /\ <>[](alerts = <<>>)

\* of the two alerts of a file that cannot be read, the first has gone
C28_Witness ==
    /\ Len(calls) = 1
    /\ calls[1].batch = <<BrokenFile>>
    /\ calls[1].pc = "done"
    /\ alerts = <<NothingAlert>>
    /\ timers = 1

=============================================================================
